---- MODULE Spec2Model ----
(***************************************************************************)
(* Face registration and recognition (facial-recognition-st).              *)
(*                                                                         *)
(* The model covers the user store (utils/database.py), the two matching   *)
(* paths of FaceProcessor.detect_face_realtime, the duplicate check        *)
(* Database.check_face_exists and the Streamlit page runs of               *)
(* pages/registration.py that call them.                                   *)
(*                                                                         *)
(* Numbers.  numpy computes in float64; the model computes the same        *)
(* expressions exactly.  A similarity is kept in the form the code         *)
(* computes it in:                                                         *)
(*   k = "cos":  a / sqrt(b)      a = dot product, b = |x|^2 * |y|^2       *)
(*               (b = 0 is the 0/0 of a zero-norm vector: NaN)             *)
(*   k = "inv":  1 / (1 + sqrt(b)/PixelMax)    b = squared pixel distance  *)
(*   k = "rat":  a / b            a literal of the source (0.5 = 1/2,      *)
(*               0.8 = 4/5, 0.6 = 3/5, -1, 0)                              *)
(* Embeddings are tuples of integers.  The embeddings of the OpenCV        *)
(* fallback are pixel values; the division by 255 of the source is carried *)
(* by PixelMax in the distance (the cosine is scale invariant).            *)
(***************************************************************************)
EXTENDS Integers, Sequences, FiniteSets, TLC

VARIABLES users, nextId, call, sess, logs, pages, camera

vars == <<users, nextId, call, sess, logs, pages, camera>>

(* ------------------------------ bounds -------------------------------- *)

MaxGallery == 3

MaxFaces == 2

(* A recognition run is started while the logs collection has room for    *)
(* the outcomes of its frame within MaxLogs documents                      *)
MaxLogs == 2

(* A registration run is started while the store has handed out fewer     *)
(* than MaxIds user ids                                                    *)
MaxIds == 3

(* A scan of SpecSnapshot is started while the logs collection has room    *)
(* for the outcomes of its frame within MaxScanLogs documents              *)
MaxScanLogs == 1

(* The gallery and the frames of the repeated calls of SpecRepeat *)
MaxRepeatGallery == 1

MaxRepeatFaces == 1

(* ------------------------- values of the source ----------------------- *)

PixelMax == 255

NoneId == 0

Rat(n, d) == [k |-> "rat", a |-> n, b |-> d]

InsightThresholdRaised == Rat(4, 5)

InsightThreshold == Rat(1, 2)

OpenCVThreshold == Rat(4, 5)

(* InitialBestScore when best_score is an attribute of the FaceProcessor    *)
(* that keeps the score of the last face matched by the call before        *)
InitialBestScoreKept ==
  IF call.op = "detect" /\ Len(call.matches) > 0
     /\ call.matches[Len(call.matches)].recognized
  THEN call.matches[Len(call.matches)].confidence
  ELSE Rat(-1, 1)

InitialBestScore == Rat(-1, 1)

DefaultConfidence == Rat(0, 1)

RegistrationThreshold == Rat(3, 5)

(* Embeddings a detector can return.  The InsightFace family has one       *)
(* length, the OpenCV fallback another.                                    *)
InsightEmbeddings == { <<5, 0, 0>>, <<3, 4, 0>>, <<1, 1, 0>>, <<0, 1, 1>>, <<0, 0, 0>> }

OpenCVEmbeddings == { <<128, 128>>, <<64, 64>>, <<120, 128>>, <<0, 0>> }

Embeddings == InsightEmbeddings \cup OpenCVEmbeddings

Backends == {TRUE, FALSE}

Sessions == {"s1", "s2"}

(* What the user can type in the text inputs of the forms *)
NameInputs == {"", "ann"}

CardInputs == {"", "c1", "c2"}

(* None where the source has an embedding or None *)
NoEmbedding == <<>>

BackendEmbeddings(use_insightface) ==
  IF use_insightface THEN InsightEmbeddings ELSE OpenCVEmbeddings

(* ------------------------------ numbers ------------------------------- *)

RECURSIVE Dot(_, _)
Dot(x, y) == IF Len(x) = 0 THEN 0 ELSE Head(x) * Head(y) + Dot(Tail(x), Tail(y))

RECURSIVE SqDist(_, _)
SqDist(x, y) ==
  IF Len(x) = 0 THEN 0
  ELSE (Head(x) - Head(y)) * (Head(x) - Head(y)) + SqDist(Tail(x), Tail(y))

IsNaN(x) == x.k = "cos" /\ x.b = 0

(* n1/d1 > n2/d2 for n >= 0 and d > 0, by the continued fractions of the   *)
(* two sides, so that no product leaves the integers of the checker        *)
RECURSIVE FracGT(_, _, _, _)
FracGT(n1, d1, n2, d2) ==
  IF n1 \div d1 # n2 \div d2 THEN n1 \div d1 > n2 \div d2
  ELSE IF n1 % d1 = 0 THEN FALSE
  ELSE IF n2 % d2 = 0 THEN TRUE
  ELSE FracGT(d2, n2 % d2, d1, n1 % d1)

(* a1/sqrt(b1) > a2/sqrt(b2), for b1 > 0 and b2 > 0 *)
SqrtGT(a1, b1, a2, b2) ==
  IF a1 >= 0 /\ a2 < 0 THEN TRUE
  ELSE IF a1 < 0 /\ a2 >= 0 THEN FALSE
  ELSE IF a1 >= 0 THEN FracGT(a1 * a1, b1, a2 * a2, b2)
  ELSE FracGT(a2 * a2, b2, a1 * a1, b1)

(* x > y on floats: every comparison with NaN is False *)
GT(x, y) ==
  IF IsNaN(x) \/ IsNaN(y) THEN FALSE
  ELSE CASE x.k = "cos" /\ y.k = "cos" -> SqrtGT(x.a, x.b, y.a, y.b)
         [] x.k = "cos" /\ y.k = "rat" -> SqrtGT(x.a, x.b, y.a, y.b * y.b)
         [] x.k = "rat" /\ y.k = "cos" -> SqrtGT(x.a, x.b * x.b, y.a, y.b)
         [] x.k = "rat" /\ y.k = "rat" -> x.a * y.b > y.a * x.b
         [] x.k = "inv" /\ y.k = "inv" -> x.b < y.b
         [] x.k = "inv" /\ y.k = "rat" ->
              IF y.a <= 0 THEN TRUE
              ELSE y.b > y.a
                   /\ PixelMax * PixelMax * (y.b - y.a) * (y.b - y.a) > y.a * y.a * x.b
         [] x.k = "rat" /\ y.k = "inv" ->
              IF x.a <= 0 THEN FALSE
              ELSE x.b < x.a
                   \/ x.a * x.a * y.b > PixelMax * PixelMax * (x.b - x.a) * (x.b - x.a)

NumEq(x, y) == ~IsNaN(x) /\ ~IsNaN(y) /\ ~GT(x, y) /\ ~GT(y, x)

(* np.dot(x, y) / (np.linalg.norm(x) * np.linalg.norm(y)), len(x) = len(y) *)
CosineSimilarity(x, y) == [k |-> "cos", a |-> Dot(x, y), b |-> Dot(x, x) * Dot(y, y)]

(* 1.0 / (1.0 + np.linalg.norm(x - y)) on embeddings pixel / 255 *)
DistanceSimilarity(x, y) == [k |-> "inv", a |-> 0, b |-> SqDist(x, y)]

(* np.dot and the array subtraction raise ValueError on unequal lengths *)
ShapesAligned(x, y) == Len(x) = Len(y)

(* ------------------------------ gallery ------------------------------- *)

(* Database.get_all_embeddings: one (str(_id), user_data, embedding) per   *)
(* stored user, in the order of the collection scan.                       *)
get_all_embeddings(us) ==
  [i \in 1..Len(us) |->
     [user_id |-> us[i].id,
      user_data |-> [name |-> us[i].name, id_card_number |-> us[i].id_card_number],
      embedding |-> us[i].face_embedding]]

NoData == [name |-> "", id_card_number |-> ""]

NoMatch == [some |-> FALSE, user_id |-> NoneId, user_data |-> NoData,
            similarity |-> DefaultConfidence]

(* ------------------------------- images ------------------------------ *)

(* An image is kept by its shape and by the rectangles drawn on it so far. *)
(* Frame is a frame as the camera delivers it.                             *)
Frame == [height |-> 3, width |-> 4, drawn |-> <<>>]

(* The BGR colors of the boxes *)
Red == <<0, 0, 255>>

Green == <<0, 255, 0>>

Max(a, b) == IF a >= b THEN a ELSE b

Min(a, b) == IF a <= b THEN a ELSE b

(* image.copy(): a new array with the content of image *)
ImageCopy(image) == image

(* cv2.rectangle(img, pt1, pt2, color, 2) draws on the array it is given *)
DrawRectangle(image, rectangle) == [image EXCEPT !.drawn = Append(@, rectangle)]

(* DrawnOn when display_image is the caller's array itself, not a copy *)
DrawnOnShared(image, display_image, rectangle) ==
  [image |-> DrawRectangle(image, rectangle),
   display_image |-> DrawRectangle(display_image, rectangle)]

(* The caller's array and display_image after cv2.rectangle(display_image, *)
(* ...): display_image is a copy, the caller's array keeps its content     *)
DrawnOn(image, display_image, rectangle) ==
  [image |-> image, display_image |-> DrawRectangle(display_image, rectangle)]

(* A detection: InsightFace gives bbox = <<x1, y1, x2, y2>>, the cascade   *)
(* of OpenCV gives <<x, y, w, h>>.  The embedding is face.embedding on     *)
(* InsightFace and the resized crop of the box on OpenCV.                  *)
Detection(bbox, embedding) == [bbox |-> bbox, embedding |-> embedding]

(* The box the detector reports for the j-th face of a frame given by the  *)
(* embeddings of its faces: the faces stand side by side in the frame      *)
BoxOfFace(use_insightface, j) ==
  IF use_insightface THEN <<j - 1, 0, j + 1, 2>> ELSE <<j - 1, 0, 2, 2>>

(* self.face_app.get(image) / self.face_cascade.detectMultiScale(gray, 1.3, 5) *)
(* on a frame with these faces                                             *)
Detected(use_insightface, faces) ==
  [j \in 1..Len(faces) |-> Detection(BoxOfFace(use_insightface, j), faces[j])]

(* The rectangle drawn for a face on the InsightFace backend *)
InsightRectangle(bbox, display_image, color) ==
  [pt1 |-> <<Max(0, bbox[1]), Max(0, bbox[2])>>,
   pt2 |-> <<Min(bbox[3], display_image.width), Min(bbox[4], display_image.height)>>,
   color |-> color]

(* The rectangle drawn for a face on the OpenCV fallback *)
OpenCVRectangle(box, color) ==
  [pt1 |-> <<box[1], box[2]>>, pt2 |-> <<box[1] + box[3], box[2] + box[4]>>,
   color |-> color]

Rectangle(use_insightface, bbox, display_image, color) ==
  IF use_insightface THEN InsightRectangle(bbox, display_image, color)
  ELSE OpenCVRectangle(bbox, color)

(* The bounds r0:r1, c0:c1 of the slice image[r0:r1, c0:c1] a crop is      *)
(* taken with.  InsightFace: max(0, .) on the lower bounds, min(., shape)  *)
(* on the upper bounds.                                                    *)
InsightCrop(bbox, image) ==
  [r0 |-> Max(0, bbox[2]), r1 |-> Min(bbox[4], image.height),
   c0 |-> Max(0, bbox[1]), c1 |-> Min(bbox[3], image.width)]

(* OpenCV: image[y:y+h, x:x+w] *)
OpenCVCrop(box, image) ==
  [r0 |-> box[2], r1 |-> box[2] + box[4], c0 |-> box[1], c1 |-> box[1] + box[3]]

CropBounds(use_insightface, bbox, image) ==
  IF use_insightface THEN InsightCrop(bbox, image) ELSE OpenCVCrop(bbox, image)

(* ------------------- FaceProcessor.detect_face_realtime --------------- *)

(* BetterMatch with >= on the running maximum: a later entry with an equal *)
(* score replaces the earlier one                                          *)
BetterMatchTieLast(similarity, threshold, best_score) ==
  GT(similarity, threshold) /\ ~GT(best_score, similarity)

(* The guard of the running maximum, the same on both backends:            *)
(*   if similarity > threshold and similarity > best_score                 *)
BetterMatch(similarity, threshold, best_score) ==
  GT(similarity, threshold) /\ GT(similarity, best_score)

(* The loop over stored_embeddings on the InsightFace backend.  There is   *)
(* no length test: np.dot raises on the first entry of another length and  *)
(* the exception leaves the loop and the function.  visited counts the     *)
(* entries whose loop body ran to its end.                                 *)
RECURSIVE InsightScan(_, _, _, _, _)
InsightScan(embedding, stored, i, best_match, best_score) ==
  IF i > Len(stored)
  THEN [raised |-> FALSE, best_match |-> best_match, visited |-> Len(stored)]
  ELSE IF ~ShapesAligned(embedding, stored[i].embedding)
  THEN [raised |-> TRUE, best_match |-> best_match, visited |-> i - 1]
  ELSE LET similarity == CosineSimilarity(embedding, stored[i].embedding)
       IN IF BetterMatch(similarity, InsightThreshold, best_score)
          THEN InsightScan(embedding, stored, i + 1,
                           [some |-> TRUE, user_id |-> stored[i].user_id,
                            user_data |-> stored[i].user_data,
                            similarity |-> similarity],
                           similarity)
          ELSE InsightScan(embedding, stored, i + 1, best_match, best_score)

(* The loop on the OpenCV fallback: entries of another length are passed   *)
(* over by the len() test, the others are scored by 1 / (1 + distance).    *)
RECURSIVE OpenCVScan(_, _, _, _, _)
OpenCVScan(embedding, stored, i, best_match, best_score) ==
  IF i > Len(stored)
  THEN [raised |-> FALSE, best_match |-> best_match, visited |-> Len(stored)]
  ELSE IF Len(embedding) = Len(stored[i].embedding)
  THEN LET similarity == DistanceSimilarity(embedding, stored[i].embedding)
       IN IF BetterMatch(similarity, OpenCVThreshold, best_score)
          THEN OpenCVScan(embedding, stored, i + 1,
                          [some |-> TRUE, user_id |-> stored[i].user_id,
                           user_data |-> stored[i].user_data,
                           similarity |-> similarity],
                          similarity)
          ELSE OpenCVScan(embedding, stored, i + 1, best_match, best_score)
  ELSE OpenCVScan(embedding, stored, i + 1, best_match, best_score)

(* The matching of one detected face.  "if stored_embeddings:" skips the   *)
(* scan of an empty (or absent) gallery.                                   *)
MatchFace(use_insightface, embedding, stored) ==
  IF Len(stored) = 0
  THEN [raised |-> FALSE, best_match |-> NoMatch, visited |-> 0]
  ELSE IF use_insightface
  THEN InsightScan(embedding, stored, 1, NoMatch, InitialBestScore)
  ELSE OpenCVScan(embedding, stored, 1, NoMatch, InitialBestScore)

(* FaceData with recognized set for every face *)
FaceDataAllRecognized(best_match) ==
  [match |-> IF best_match.some THEN best_match.user_data ELSE NoData,
   user_id |-> IF best_match.some THEN best_match.user_id ELSE NoneId,
   confidence |-> IF best_match.some THEN best_match.similarity ELSE DefaultConfidence,
   recognized |-> TRUE]

(* face_data of one face: match, user_id, confidence, recognized *)
FaceData(best_match) ==
  [match |-> IF best_match.some THEN best_match.user_data ELSE NoData,
   user_id |-> IF best_match.some THEN best_match.user_id ELSE NoneId,
   confidence |-> IF best_match.some THEN best_match.similarity ELSE DefaultConfidence,
   recognized |-> best_match.some]

(* The color of the box of a face: green with a match, else red *)
BoxColor(best_match) == IF best_match.some THEN Green ELSE Red

(* The loop over the detected faces: the matching, the box drawn on        *)
(* display_image, the crop and the face_data appended to matches.  A face  *)
(* whose scan raises ends the call: nothing is returned.  acc holds the    *)
(* caller's array (image), display_image, matches, the crops taken and,    *)
(* per face whose matching was started, the number of gallery entries its  *)
(* loop went through (scans).                                              *)
RECURSIVE DetectLoop(_, _, _, _, _)
DetectLoop(use_insightface, faces, stored, j, acc) ==
  IF j > Len(faces)
  THEN [raised |-> FALSE, image |-> acc.image, display_image |-> acc.display_image,
        matches |-> acc.matches, scans |-> acc.scans, crops |-> acc.crops]
  ELSE LET r == MatchFace(use_insightface, faces[j].embedding, stored)
           drawn == DrawnOn(acc.image, acc.display_image,
                            Rectangle(use_insightface, faces[j].bbox, acc.display_image,
                                      BoxColor(r.best_match)))
       IN IF r.raised
          THEN [raised |-> TRUE, image |-> acc.image, display_image |-> acc.image,
                matches |-> <<>>, scans |-> Append(acc.scans, r.visited),
                crops |-> acc.crops]
          ELSE DetectLoop(use_insightface, faces, stored, j + 1,
                          [image |-> drawn.image,
                           display_image |-> drawn.display_image,
                           matches |-> Append(acc.matches, FaceData(r.best_match)),
                           scans |-> Append(acc.scans, r.visited),
                           crops |-> Append(acc.crops,
                                            CropBounds(use_insightface, faces[j].bbox,
                                                       drawn.image))])

(* "display_image = image.copy(); matches = []", then the loop over the    *)
(* faces of the detector, then "return display_image, matches"             *)
detect_face_realtime(use_insightface, image, faces, stored_embeddings) ==
  DetectLoop(use_insightface, faces, stored_embeddings, 1,
             [image |-> image, display_image |-> ImageCopy(image),
              matches |-> <<>>, scans |-> <<>>, crops |-> <<>>])

(* ----------------------- Database.check_face_exists ------------------- *)

NoUserInfo == [id |-> NoneId, name |-> "", similarity |-> DefaultConfidence]

(* "if similarity > similarity_threshold: return True, {...}" *)
AboveThreshold(similarity, similarity_threshold) == GT(similarity, similarity_threshold)

(* The loop over the users.  The whole body is inside try/except: the      *)
(* ValueError of np.dot on an entry of another length is caught and the    *)
(* function returns (False, None).  The first entry above the threshold    *)
(* ends the loop.                                                          *)
RECURSIVE CheckScan(_, _, _, _)
CheckScan(us, face_embedding, similarity_threshold, i) ==
  IF i > Len(us)
  THEN [exists |-> FALSE, user_info |-> NoUserInfo, raised |-> FALSE, visited |-> Len(us)]
  ELSE IF ~ShapesAligned(us[i].face_embedding, face_embedding)
  THEN [exists |-> FALSE, user_info |-> NoUserInfo, raised |-> TRUE, visited |-> i - 1]
  ELSE LET similarity == CosineSimilarity(us[i].face_embedding, face_embedding)
       IN IF AboveThreshold(similarity, similarity_threshold)
          THEN [exists |-> TRUE,
                user_info |-> [id |-> us[i].id, name |-> us[i].name,
                               similarity |-> similarity],
                raised |-> FALSE, visited |-> i]
          ELSE CheckScan(us, face_embedding, similarity_threshold, i + 1)

check_face_exists(us, face_embedding, similarity_threshold) ==
  CheckScan(us, face_embedding, similarity_threshold, 1)

(* ------------------------------ the store ----------------------------- *)

(* A document of the users collection.  Of the profile fields the model    *)
(* keeps name and id_card_number; age, nationality, profession and the     *)
(* image are carried along by the source and decide nothing here.          *)
UserDoc(id, name, id_card_number, face_embedding) ==
  [id |-> id, name |-> name, id_card_number |-> id_card_number,
   face_embedding |-> face_embedding]

(* users_collection.find_one({"id_card_number": c}) found a document *)
CardTaken(us, c) == \E i \in 1..Len(us) : us[i].id_card_number = c

(* find_one({"id_card_number": c, "_id": {"$ne": id}}) found a document *)
CardTakenByOther(us, c, id) ==
  \E i \in 1..Len(us) : us[i].id_card_number = c /\ us[i].id # id

(* DuplicateKeyError for a collection without the unique index *)
DuplicateKeyErrorNoIndex(us, id_card_number, id) == FALSE

(* The unique index on id_card_number (created by _initialize_collections) *)
(* makes insert_one and update_one raise DuplicateKeyError when the write  *)
(* would give document id the card number of another document              *)
DuplicateKeyError(us, id_card_number, id) == CardTakenByOther(us, id_card_number, id)

HasUser(us, id) == \E i \in 1..Len(us) : us[i].id = id

(* SetUser when update_doc always carries the face_embedding argument *)
SetUserOverwrite(us, id, name, id_card_number, face_embedding) ==
  [i \in 1..Len(us) |->
     IF us[i].id = id
     THEN UserDoc(id, name, id_card_number, face_embedding)
     ELSE us[i]]

(* update_one({"_id": id}, {"$set": update_doc}): the embedding is part of *)
(* update_doc only when a new one was given                                *)
SetUser(us, id, name, id_card_number, face_embedding) ==
  [i \in 1..Len(us) |->
     IF us[i].id = id
     THEN UserDoc(id, name, id_card_number,
                  IF face_embedding # NoEmbedding THEN face_embedding
                  ELSE us[i].face_embedding)
     ELSE us[i]]

(* RemoveUser when delete_one removes no document *)
RemoveUserNone(us, id) == us

(* delete_one({"_id": id}): the collection without the document, the other *)
(* documents in their order                                                *)
RemoveUser(us, id) == SelectSeq(us, LAMBDA u : u.id # id)

(* ------------------------------ sessions ------------------------------ *)

(* One browser session: its FaceProcessor (use_insightface, fixed by       *)
(* __init__), the position of the page run in progress and the locals of   *)
(* that run.  embeddings is the list get_all_embeddings returned to the    *)
(* run, found_users the list check_face_exists made of its find, while the *)
(* scan of the list is still to come.                                      *)
(* checked is the argument list of the check_face_exists call              *)
(* of the run (empty when the run made none), threshold the threshold the  *)
(* matching operation of the run compares against.  capture tells what the *)
(* image of the run showed ("none": no image was taken), message is the    *)
(* message of get_face_embedding the page displays, check_raised tells     *)
(* that check_face_exists went through its except branch.  A run that has  *)
(* ended keeps nothing: every run starts from the widgets and the store.   *)
IdleSession(use_insightface) ==
  [use_insightface |-> use_insightface,
   pc |-> "idle",
   capture |-> "none",
   message |-> "",
   check_raised |-> FALSE,
   face_embedding |-> NoEmbedding,
   face_exists |-> FALSE,
   existing_user |-> NoUserInfo,
   checked |-> <<>>,
   user_id |-> NoneId,
   name |-> "",
   id_card_number |-> "",
   threshold |-> DefaultConfidence,
   matches |-> <<>>,
   embeddings |-> <<>>,
   found_users |-> <<>>]

(* The images a session's camera or upload can bring, by the embedding     *)
(* get_face_embedding extracts from them                                   *)
Captures(use_insightface) ==
  IF use_insightface THEN { <<5, 0, 0>>, <<3, 4, 0>> } ELSE { <<128, 128>>, <<64, 64>> }

(* ------------------- FaceProcessor.get_face_embedding ----------------- *)

(* The key of the sort: (x2 - x1) * (y2 - y1) on InsightFace, w * h on     *)
(* OpenCV.  The boxes of the model have whole-number coordinates.          *)
Area(use_insightface, bbox) ==
  IF use_insightface THEN (bbox[3] - bbox[1]) * (bbox[4] - bbox[2])
  ELSE bbox[3] * bbox[4]

(* StaysBefore for a sort that puts the later of two equal keys first *)
StaysBeforeStrict(area_earlier, area_later) == area_earlier > area_later

(* sorted(faces, key=area, reverse=True): of two detections the earlier    *)
(* one stays before the later one unless its key is smaller (the sort is   *)
(* stable, also with reverse=True)                                         *)
StaysBefore(area_earlier, area_later) == area_earlier >= area_later

(* face, detected after all of sorted, put in its place in sorted *)
RECURSIVE InsertByArea(_, _, _)
InsertByArea(use_insightface, sorted, face) ==
  IF Len(sorted) = 0 THEN <<face>>
  ELSE IF StaysBefore(Area(use_insightface, Head(sorted).bbox),
                      Area(use_insightface, face.bbox))
  THEN <<Head(sorted)>> \o InsertByArea(use_insightface, Tail(sorted), face)
  ELSE <<face>> \o sorted

RECURSIVE SortedByArea(_, _)
SortedByArea(use_insightface, faces) ==
  IF Len(faces) = 0 THEN <<>>
  ELSE InsertByArea(use_insightface,
                    SortedByArea(use_insightface, SubSeq(faces, 1, Len(faces) - 1)),
                    faces[Len(faces)])

(* None as the face_image of the result; a face image is kept as the tuple *)
(* of the one slice it was cropped with                                    *)
NoImage == <<>>

(* NoFaceFound when a default vector is returned for a frame without faces *)
NoFaceDefaultVector(use_insightface) ==
  [embedding |-> IF use_insightface THEN <<0, 0, 0>> ELSE <<0, 0>>,
   face_image |-> NoImage, status |-> TRUE,
   message |-> "Face detected successfully", bbox |-> <<>>]

(* "return None, None, False, 'No face detected in the image'" *)
NoFaceFound(use_insightface) ==
  [embedding |-> NoEmbedding, face_image |-> NoImage, status |-> FALSE,
   message |-> "No face detected in the image", bbox |-> <<>>]

(* get_face_embedding on an image in which the detector finds faces: the   *)
(* result (embedding, face_image, status, message); bbox is the box of the *)
(* face the result was taken from                                          *)
get_face_embedding(use_insightface, image, faces) ==
  IF Len(faces) = 0 THEN NoFaceFound(use_insightface)
  ELSE LET sorted == IF Len(faces) > 1 THEN SortedByArea(use_insightface, faces)
                     ELSE faces
           face == sorted[1]
       IN [embedding |-> face.embedding,
           face_image |-> <<CropBounds(use_insightface, face.bbox, image)>>,
           status |-> TRUE,
           message |-> IF use_insightface THEN "Face detected successfully"
                       ELSE "Face detected (using OpenCV fallback)",
           bbox |-> face.bbox]

(* --------------------- registration.add_user_page --------------------- *)

(* What the detector finds in the images a session captures or uploads:   *)
(* no face, or the face of one of its captures                             *)
CapturedImages(use_insightface) ==
  { <<>> } \cup { <<Detection(BoxOfFace(use_insightface, 1), e)>> :
                    e \in Captures(use_insightface) }

(* What an image showed: the capture field of the session *)
Shown(faces) == IF Len(faces) = 0 THEN "no face" ELSE "face"

(* The result of check_face_exists when users_collection.find raises:      *)
(* "except Exception as e: logger.error(...); return False, None"          *)
CheckFailed ==
  [exists |-> FALSE, user_info |-> NoUserInfo, raised |-> TRUE, visited |-> 0]

(* get_face_embedding on the image of the run, then, on status True,       *)
(* check_face_exists with similarity_threshold=0.6; the store answers the  *)
(* find of the check or fails.  On status False the run displays the       *)
(* message and makes no check.                                             *)
AddPageCheck(s) ==
  /\ sess[s].pc = "idle"
  /\ nextId <= MaxIds
  /\ \E faces \in CapturedImages(sess[s].use_insightface) :
       LET g == get_face_embedding(sess[s].use_insightface, Frame, faces)
       IN IF ~g.status
          THEN sess' = [sess EXCEPT ![s].pc = "noface",
                                    ![s].capture = Shown(faces),
                                    ![s].message = g.message]
          ELSE \E store_up \in BOOLEAN :
                 LET r == IF store_up
                          THEN check_face_exists(users, g.embedding, RegistrationThreshold)
                          ELSE CheckFailed
                 IN sess' = [sess EXCEPT ![s].pc = "checked",
                                         ![s].capture = Shown(faces),
                                         ![s].message = g.message,
                                         ![s].check_raised = r.raised,
                                         ![s].face_embedding = g.embedding,
                                         ![s].face_exists = r.exists,
                                         ![s].existing_user = r.user_info,
                                         ![s].checked = <<g.embedding>>,
                                         ![s].threshold = RegistrationThreshold]
  /\ UNCHANGED <<users, nextId, call, logs, pages, camera>>

(* The Add User run up to the find of check_face_exists: the embedding is  *)
(* extracted and "users = list(self.users_collection.find({}))" has made   *)
(* its list; the loop over the list is still to come.                      *)
AddPageRead(s) ==
  /\ sess[s].pc = "idle"
  /\ nextId <= MaxIds
  /\ \E faces \in CapturedImages(sess[s].use_insightface) :
       LET g == get_face_embedding(sess[s].use_insightface, Frame, faces)
       IN IF ~g.status
          THEN sess' = [sess EXCEPT ![s].pc = "noface",
                                    ![s].capture = Shown(faces),
                                    ![s].message = g.message]
          ELSE sess' = [sess EXCEPT ![s].pc = "checking",
                                    ![s].capture = Shown(faces),
                                    ![s].message = g.message,
                                    ![s].face_embedding = g.embedding,
                                    ![s].found_users = users]
  /\ UNCHANGED <<users, nextId, call, logs, pages, camera>>

(* ScannedUsers when the loop reads the collection as it goes *)
ScannedUsersLive(found_users, us) == us

(* "for user in users:" goes through the list made before the loop *)
ScannedUsers(found_users, us) == found_users

(* The loop of check_face_exists and the return to the page *)
AddPageScan(s) ==
  /\ sess[s].pc = "checking"
  /\ LET r == check_face_exists(ScannedUsers(sess[s].found_users, users),
                                sess[s].face_embedding, RegistrationThreshold)
     IN sess' = [sess EXCEPT ![s].pc = "checked",
                             ![s].check_raised = r.raised,
                             ![s].face_exists = r.exists,
                             ![s].existing_user = r.user_info,
                             ![s].checked = <<sess[s].face_embedding>>,
                             ![s].threshold = RegistrationThreshold,
                             ![s].found_users = <<>>]
  /\ UNCHANGED <<users, nextId, call, logs, pages, camera>>

(* "if face_exists and existing_user: ... return" *)
DuplicateShown(face_exists, existing_user) ==
  face_exists /\ existing_user # NoUserInfo

(* FormShown without the return on a duplicate and without the test of     *)
(* face_exists                                                             *)
FormShownUnguarded(face_embedding, face_exists, existing_user) ==
  face_embedding # NoEmbedding

(* The registration form is reached and shown: the run did not return on   *)
(* a duplicate and                                                         *)
(*   face_embedding is not None and face_image is not None and not face_exists *)
FormShown(face_embedding, face_exists, existing_user) ==
  /\ ~DuplicateShown(face_exists, existing_user)
  /\ face_embedding # NoEmbedding
  /\ ~face_exists

(* The rest of the run after the capture branch: the duplicate message,    *)
(* or the form and, when Register User was pressed with a name and a card  *)
(* number, the find_one of add_user; without an embedding neither.         *)
AddPageForm(s) ==
  /\ sess[s].pc \in {"checked", "noface"}
  /\ IF ~FormShown(sess[s].face_embedding, sess[s].face_exists, sess[s].existing_user)
     THEN sess' = [sess EXCEPT ![s] = IdleSession(sess[s].use_insightface)]
     ELSE \E submit_button \in BOOLEAN, name \in NameInputs, id_card_number \in CardInputs :
            IF ~submit_button \/ name = "" \/ id_card_number = ""
               \/ CardTaken(users, id_card_number)
            THEN sess' = [sess EXCEPT ![s] = IdleSession(sess[s].use_insightface)]
            ELSE sess' = [sess EXCEPT ![s].pc = "inserting", ![s].name = name,
                                      ![s].id_card_number = id_card_number]
  /\ UNCHANGED <<users, nextId, call, logs, pages, camera>>

(* insert_one of add_user.  The unique index on id_card_number makes the   *)
(* insert raise when the card number was stored in the meantime; add_user  *)
(* catches it and returns (False, message, None).                          *)
AddUserInsert(s) ==
  /\ sess[s].pc = "inserting"
  /\ IF DuplicateKeyError(users, sess[s].id_card_number, nextId)
     THEN UNCHANGED <<users, nextId>>
     ELSE /\ users' = Append(users, UserDoc(nextId, sess[s].name, sess[s].id_card_number,
                                            sess[s].face_embedding))
          /\ nextId' = nextId + 1
  /\ sess' = [sess EXCEPT ![s] = IdleSession(sess[s].use_insightface)]
  /\ UNCHANGED <<call, logs, pages, camera>>

(* -------------------- registration.edit_user_modal -------------------- *)

(* One run of the edit modal on a listed user: get_user, the optional new  *)
(* image (get_face_embedding when Update Image is on; new_face_embedding   *)
(* stays None when it is off or when status is False), the form, and on    *)
(* Update the find_one of update_user.  The modal makes no call of         *)
(* check_face_exists.  The text inputs start from the stored values; the   *)
(* user keeps the name and keeps or retypes the card number.               *)
EditPageForm(s) ==
  /\ sess[s].pc = "idle"
  /\ \E i \in 1..Len(users) :
     \E update_image \in BOOLEAN, faces \in CapturedImages(sess[s].use_insightface) :
     \E submit \in BOOLEAN, name \in {users[i].name},
        id_card_number \in {users[i].id_card_number} \cup (CardInputs \ {""}) :
       LET g == get_face_embedding(sess[s].use_insightface, Frame, faces)
           new_face_embedding == IF update_image /\ g.status THEN g.embedding
                                 ELSE NoEmbedding
       IN IF ~submit \/ CardTakenByOther(users, id_card_number, users[i].id)
          THEN sess' = [sess EXCEPT ![s] = IdleSession(sess[s].use_insightface)]
          ELSE sess' = [sess EXCEPT ![s].pc = "updating",
                                    ![s].capture = IF update_image THEN Shown(faces)
                                                   ELSE "none",
                                    ![s].user_id = users[i].id,
                                    ![s].face_embedding = new_face_embedding,
                                    ![s].name = name,
                                    ![s].id_card_number = id_card_number]
  /\ UNCHANGED <<users, nextId, call, logs, pages, camera>>

(* update_one of update_user: matched_count 0 when the user is gone, the   *)
(* unique index raises when the card number was taken in the meantime.     *)
UpdateUserWrite(s) ==
  /\ sess[s].pc = "updating"
  /\ IF ~HasUser(users, sess[s].user_id)
        \/ DuplicateKeyError(users, sess[s].id_card_number, sess[s].user_id)
     THEN UNCHANGED users
     ELSE users' = SetUser(users, sess[s].user_id, sess[s].name,
                           sess[s].id_card_number, sess[s].face_embedding)
  /\ sess' = [sess EXCEPT ![s] = IdleSession(sess[s].use_insightface)]
  /\ UNCHANGED <<nextId, call, logs, pages, camera>>

(* ------------------- registration.delete_user_modal ------------------- *)

(* The Delete button of a listed user: delete_user_id and delete_user_name *)
(* go to session_state and the rerun shows the confirmation modal          *)
DeletePage(s) ==
  /\ sess[s].pc = "idle"
  /\ \E i \in 1..Len(users) :
       sess' = [sess EXCEPT ![s].pc = "deleting", ![s].user_id = users[i].id,
                            ![s].name = users[i].name]
  /\ UNCHANGED <<users, nextId, call, logs, pages, camera>>

(* A run of the modal.  Cancel clears the session state.  "Yes, Delete"    *)
(* calls delete_user, whose find_one returns (False, "User with ID ... not *)
(* found") for an id that is not stored; the modal stays with the message. *)
DeleteUserFind(s) ==
  /\ sess[s].pc = "deleting"
  /\ \E confirm \in BOOLEAN :
       IF ~confirm
       THEN sess' = [sess EXCEPT ![s] = IdleSession(sess[s].use_insightface)]
       ELSE IF HasUser(users, sess[s].user_id)
       THEN sess' = [sess EXCEPT ![s].pc = "removing", ![s].message = ""]
       ELSE sess' = [sess EXCEPT ![s].message = "User not found"]
  /\ UNCHANGED <<users, nextId, call, logs, pages, camera>>

(* delete_one of delete_user: deleted_count > 0 returns (True, "User       *)
(* deleted successfully"), the session state is cleared and the page       *)
(* reruns; deleted_count = 0 (the document went in the meantime) returns   *)
(* (False, "User not deleted. Please try again.").                         *)
DeleteUserRemove(s) ==
  /\ sess[s].pc = "removing"
  /\ IF HasUser(users, sess[s].user_id)
     THEN /\ users' = RemoveUser(users, sess[s].user_id)
          /\ sess' = [sess EXCEPT ![s] = IdleSession(sess[s].use_insightface)]
     ELSE /\ UNCHANGED users
          /\ sess' = [sess EXCEPT ![s].pc = "deleting",
                                  ![s].message = "User not deleted"]
  /\ UNCHANGED <<nextId, call, logs, pages, camera>>

(* ------------------- realtime_test.live_detection_page ---------------- *)

(* The threshold detect_face_realtime assigns on each backend *)
RecognitionThreshold(use_insightface) ==
  IF use_insightface THEN InsightThreshold ELSE OpenCVThreshold

(* The faces a detector can find in one frame, by their embeddings *)
Frames(use_insightface) ==
  UNION { [1..n -> BackendEmbeddings(use_insightface)] : n \in 0..MaxFaces }

(* The frames of a session's camera *)
CapturedFrames(use_insightface) ==
  UNION { [1..n -> Captures(use_insightface)] : n \in 0..MaxFaces }

(* The document add_log inserts for one outcome of the frame *)
LogEntry(match_data) ==
  [recognition_status |-> IF match_data.recognized THEN "recognized" ELSE "unknown",
   person_id |-> IF match_data.recognized THEN match_data.user_id ELSE NoneId,
   person_name |-> match_data.match.name,
   confidence_score |-> IF match_data.recognized THEN match_data.confidence
                        ELSE DefaultConfidence]

(* The loop "for match_data in matches": one add_log per outcome, in order *)
AddLogs(ls, matches) == ls \o [j \in 1..Len(matches) |-> LogEntry(matches[j])]

(* The number of outcomes the recognition runs in progress are about to    *)
(* log                                                                     *)
RECURSIVE PendingLogs(_)
PendingLogs(S) ==
  IF S = {} THEN 0
  ELSE LET s == CHOOSE t \in S : TRUE
       IN Len(sess[s].matches) + PendingLogs(S \ {s})

(* One run of the recognition page with a captured frame: the gallery is   *)
(* read; when it is empty the page shows a warning and no camera; else the *)
(* frame goes to detect_face_realtime, whose exception ends the run.       *)
RecognitionPage(s) ==
  /\ sess[s].pc = "idle"
  /\ \E faces \in CapturedFrames(sess[s].use_insightface) :
       /\ Len(logs) + PendingLogs(Sessions) + Len(faces) <= MaxLogs
       /\ LET embeddings == get_all_embeddings(users)
              r == detect_face_realtime(sess[s].use_insightface, Frame,
                                        Detected(sess[s].use_insightface, faces),
                                        embeddings)
          IN IF Len(embeddings) = 0 \/ r.raised
             THEN sess' = [sess EXCEPT ![s] = IdleSession(sess[s].use_insightface)]
             ELSE sess' = [sess EXCEPT ![s].pc = "detected",
                                       ![s].threshold =
                                          RecognitionThreshold(sess[s].use_insightface),
                                       ![s].matches = r.matches]
  /\ UNCHANGED <<users, nextId, call, logs, pages, camera>>

(* The recognition run up to the camera: "embeddings =                     *)
(* st.session_state.database.get_all_embeddings()" has returned its list.  *)
(* With an empty list the page shows the warning and the run ends.         *)
RecognitionRead(s) ==
  /\ sess[s].pc = "idle"
  /\ LET embeddings == get_all_embeddings(users)
     IN IF Len(embeddings) = 0
        THEN sess' = [sess EXCEPT ![s] = IdleSession(sess[s].use_insightface)]
        ELSE sess' = [sess EXCEPT ![s].pc = "scanning", ![s].embeddings = embeddings]
  /\ UNCHANGED <<users, nextId, call, logs, pages, camera>>

(* ScannedGallery when the scan reads the collection as it goes *)
ScannedGalleryLive(embeddings, us) == get_all_embeddings(us)

(* detect_face_realtime(frame, embeddings) scans the list it is given *)
ScannedGallery(embeddings, us) == embeddings

(* The frame of the camera and the call of detect_face_realtime on the     *)
(* list read before; without a photo the run ends                          *)
RecognitionScan(s) ==
  /\ sess[s].pc = "scanning"
  /\ \E captured \in BOOLEAN, faces \in CapturedFrames(sess[s].use_insightface) :
       /\ Len(logs) + PendingLogs(Sessions) + Len(faces) <= MaxScanLogs
       /\ LET r == detect_face_realtime(sess[s].use_insightface, Frame,
                                        Detected(sess[s].use_insightface, faces),
                                        ScannedGallery(sess[s].embeddings, users))
          IN IF ~captured \/ r.raised
             THEN sess' = [sess EXCEPT ![s] = IdleSession(sess[s].use_insightface)]
             ELSE sess' = [sess EXCEPT ![s].pc = "detected",
                                       ![s].threshold =
                                          RecognitionThreshold(sess[s].use_insightface),
                                       ![s].matches = r.matches,
                                       ![s].embeddings = <<>>]
  /\ UNCHANGED <<users, nextId, call, logs, pages, camera>>

(* The rest of the run: the outcomes are shown, each of them is written to *)
(* the logs collection by add_log, and the run ends                        *)
RecognitionShow(s) ==
  /\ sess[s].pc = "detected"
  /\ logs' = AddLogs(logs, sess[s].matches)
  /\ sess' = [sess EXCEPT ![s] = IdleSession(sess[s].use_insightface)]
  /\ UNCHANGED <<users, nextId, call, pages, camera>>

(* ------------- the session state of the recognition page ------------- *)

(* "if len(st.session_state.recognition_logs) > 50" *)
SessionLogCap == 50

(* The value of st.camera_input("Capture for recognition"): no photo, or   *)
(* the photo taken, given by the faces in it. The widget keeps its photo   *)
(* from run to run until the user clears it or takes another.              *)
NoPhoto == [taken |-> FALSE, faces |-> <<>>]

Photo(faces) == [taken |-> TRUE, faces |-> faces]

(* What makes the page run again: a photo taken, the photo cleared, the    *)
(* button "Clear Current Logs", or another widget of the page (the filters *)
(* and buttons of the logs viewer)                                         *)
PageEvents == {"capture", "clear_photo", "clear_logs", "rerun"}

(* log_entry of one outcome; timestamp is datetime.now(), given by the     *)
(* number of entries the session has stamped                               *)
SessionEntry(match_data, timestamp) ==
  [timestamp |-> timestamp,
   recognition_status |-> IF match_data.recognized THEN "recognized" ELSE "unknown",
   person_id |-> IF match_data.recognized THEN match_data.user_id ELSE NoneId,
   person_name |-> IF match_data.recognized THEN match_data.match ELSE NoData,
   confidence_score |-> IF match_data.recognized THEN match_data.confidence
                        ELSE DefaultConfidence]

(* KeepLogs that keeps the last SessionLogCap entries of the list *)
KeepLogsLast(recognition_logs) ==
  IF Len(recognition_logs) > SessionLogCap
  THEN SubSeq(recognition_logs, Len(recognition_logs) - SessionLogCap + 1,
              Len(recognition_logs))
  ELSE recognition_logs

(* "if len(...) > 50: recognition_logs = recognition_logs[:50]" *)
KeepLogs(recognition_logs) ==
  IF Len(recognition_logs) > SessionLogCap
  THEN SubSeq(recognition_logs, 1, SessionLogCap)
  ELSE recognition_logs

(* The session side of the loop "for match_data in matches":               *)
(* "recognition_logs.insert(0, log_entry)", then the cap                   *)
RECURSIVE SessionLogs(_, _, _, _)
SessionLogs(recognition_logs, matches, j, now) ==
  IF j > Len(matches) THEN recognition_logs
  ELSE SessionLogs(KeepLogs(<<SessionEntry(matches[j], now + 1)>> \o recognition_logs),
                   matches, j + 1, now + 1)

(* The session state of a session that has not opened the page:            *)
(* "st.session_state.recognition_logs = []"; event is what made the last   *)
(* run of the page, now the number of entries stamped so far               *)
NewPage == [photo |-> NoPhoto, recognition_logs |-> <<>>, now |-> 0, event |-> "rerun"]

NewPages == [s \in Sessions |-> NewPage]

(* One whole run of live_detection_page. The button empties the list; the  *)
(* gallery is read; with an empty gallery no camera is shown (and the      *)
(* widget that is not shown loses its photo); with a photo in the widget   *)
(* the frame is scanned, each outcome is written by add_log and put at the *)
(* head of the session list. An exception of detect_face_realtime ends the *)
(* run before any entry is made.                                           *)
LiveDetectionRun(s) ==
  /\ sess[s].pc = "idle"
  /\ \E event \in PageEvents :
     \E faces \in IF event = "capture" THEN CapturedFrames(sess[s].use_insightface)
                  ELSE {<<>>} :
       LET photo == IF event = "capture" THEN Photo(faces)
                    ELSE IF event = "clear_photo" THEN NoPhoto
                    ELSE pages[s].photo
           cleared == IF event = "clear_logs" THEN <<>> ELSE pages[s].recognition_logs
           embeddings == get_all_embeddings(users)
           r == detect_face_realtime(sess[s].use_insightface, Frame,
                                     Detected(sess[s].use_insightface, photo.faces),
                                     embeddings)
       IN /\ Len(logs) + Len(photo.faces) <= MaxLogs
          /\ IF Len(embeddings) = 0
             THEN /\ pages' = [pages EXCEPT ![s].photo = NoPhoto,
                                            ![s].recognition_logs = cleared,
                                            ![s].event = event]
                  /\ logs' = logs
             ELSE IF ~photo.taken \/ r.raised
             THEN /\ pages' = [pages EXCEPT ![s].photo = photo,
                                            ![s].recognition_logs = cleared,
                                            ![s].event = event]
                  /\ logs' = logs
             ELSE /\ pages' = [pages EXCEPT
                                 ![s].photo = photo,
                                 ![s].recognition_logs =
                                    SessionLogs(cleared, r.matches, 1, pages[s].now),
                                 ![s].now = pages[s].now + Len(r.matches),
                                 ![s].event = event]
                  /\ logs' = AddLogs(logs, r.matches)
  /\ UNCHANGED <<users, nextId, call, sess, camera>>

(* ----------------------------- the Camera ----------------------------- *)

(* One Camera object, the thread that calls start, stop and get_frame on   *)
(* it (the caller) and the acquisition threads it has started.             *)
(*   cap        self.cap: 0 before the first start, else the index in caps *)
(*              of the VideoCapture it holds                               *)
(*   caps       the VideoCapture objects made: "open", "failed" (isOpened  *)
(*              is false) or "released"                                    *)
(*   thread     self.thread: 0 for None, else the index in threads         *)
(*   threads    per thread started its position in _read_frames and its    *)
(*              local variable frame                                       *)
(*   lock       who holds self.lock                                        *)
(*   frame      self.frame: <<>> for None, else <<array>>                  *)
(*   reads      the frames the devices have delivered                      *)
(*   returned   what the last get_frame returned, after has_returned       *)
(*   read_released  a thread has called read() on a released VideoCapture  *)

(* The calls of start that make a VideoCapture in a behaviour *)
MaxStarts == 2

(* The frames the capture devices deliver in a behaviour *)
MaxReads == 2

Unlocked == <<>>

HeldByCaller == <<"caller", 0>>

HeldByThread(t) == <<"thread", t>>

(* The array cap.read() returns for the k-th frame of the device *)
ReadArray(k) == [made_by |-> "read", data |-> k]

(* FrameCopy that hands out the array of the slot itself *)
FrameAlias(array) == array

(* "self.frame.copy()": a new array with the same data *)
FrameCopy(array) == [array EXCEPT !.made_by = "copy"]

(* CanAcquire of a lock that never makes its taker wait *)
CanAcquireAlways(lock) == TRUE

(* "with self.lock:" goes on when no one holds the lock *)
CanAcquire(lock) == lock = Unlocked

(* Camera.__init__ *)
NewCamera ==
  [is_running |-> FALSE, cap |-> 0, caps |-> <<>>, thread |-> 0, threads |-> <<>>,
   lock |-> Unlocked, frame |-> <<>>, reads |-> 0, caller |-> "idle",
   has_returned |-> FALSE, returned |-> <<>>, read_released |-> FALSE]

(* start(): nothing while is_running; else a VideoCapture is opened and    *)
(* put in self.cap, ValueError when none opens; then is_running is set and *)
(* a thread is started on _read_frames                                     *)
Start ==
  /\ camera.caller = "idle"
  /\ IF camera.is_running
     THEN UNCHANGED camera
     ELSE /\ Len(camera.caps) < MaxStarts
          /\ \E opened \in BOOLEAN :
               IF ~opened
               THEN camera' = [camera EXCEPT !.caps = Append(camera.caps, "failed"),
                                             !.cap = Len(camera.caps) + 1]
               ELSE camera' = [camera EXCEPT
                                 !.caps = Append(camera.caps, "open"),
                                 !.cap = Len(camera.caps) + 1,
                                 !.is_running = TRUE,
                                 !.threads = Append(camera.threads,
                                                    [pc |-> "loop", frame |-> <<>>]),
                                 !.thread = Len(camera.threads) + 1]
  /\ UNCHANGED <<users, nextId, call, sess, logs, pages>>

(* "cap.release()" of stop on the VideoCapture in self.cap, if any *)
Released(caps, cap) ==
  IF cap = 0 THEN caps ELSE [caps EXCEPT ![cap] = "released"]

(* stop() up to the join: "self.is_running = False"; without a thread the  *)
(* VideoCapture is released at once                                        *)
StopBegin ==
  /\ camera.caller = "idle"
  /\ IF camera.thread = 0
     THEN camera' = [camera EXCEPT !.is_running = FALSE,
                                   !.caps = Released(camera.caps, camera.cap)]
     ELSE camera' = [camera EXCEPT !.is_running = FALSE, !.caller = "joining"]
  /\ UNCHANGED <<users, nextId, call, sess, logs, pages>>

(* "self.thread.join(timeout=1.0)" returns when the thread has ended, or   *)
(* after the second, which a thread that is inside cap.read() can take     *)
JoinReturns(thread) == thread.pc = "done" \/ thread.pc = "read"

(* The join of stop returns; "self.thread = None", "cap.release()" *)
StopEnd ==
  /\ camera.caller = "joining"
  /\ JoinReturns(camera.threads[camera.thread])
  /\ camera' = [camera EXCEPT !.thread = 0, !.caller = "idle",
                              !.caps = Released(camera.caps, camera.cap)]
  /\ UNCHANGED <<users, nextId, call, sess, logs, pages>>

(* get_frame(): "with self.lock:" is entered *)
GetFrameEnter ==
  /\ camera.caller = "idle"
  /\ CanAcquire(camera.lock)
  /\ camera' = [camera EXCEPT !.lock = HeldByCaller, !.caller = "locked"]
  /\ UNCHANGED <<users, nextId, call, sess, logs, pages>>

(* get_frame(): None or a copy of self.frame is returned, the lock is      *)
(* released                                                                *)
GetFrameReturn ==
  /\ camera.caller = "locked"
  /\ camera' = [camera EXCEPT
                  !.returned = IF camera.frame = <<>> THEN <<>>
                               ELSE <<FrameCopy(camera.frame[1])>>,
                  !.has_returned = TRUE,
                  !.lock = Unlocked, !.caller = "idle"]
  /\ UNCHANGED <<users, nextId, call, sess, logs, pages>>

(* _read_frames: "while self.is_running:" *)
ThreadLoop(t) ==
  /\ t \in 1..Len(camera.threads)
  /\ camera.threads[t].pc = "loop"
  /\ camera' = [camera EXCEPT !.threads[t].pc =
                                 IF camera.is_running THEN "read" ELSE "done"]
  /\ UNCHANGED <<users, nextId, call, sess, logs, pages>>

(* _read_frames: "ret, frame = self.cap.read()" on the VideoCapture that   *)
(* self.cap holds at the call. An open device gives a new frame or fails;  *)
(* a released one gives (False, None). Without a frame the thread sleeps   *)
(* and tests is_running again.                                             *)
ThreadRead(t) ==
  /\ t \in 1..Len(camera.threads)
  /\ camera.threads[t].pc = "read"
  /\ \E ret \in BOOLEAN :
       IF camera.caps[camera.cap] = "open" /\ ret /\ camera.reads < MaxReads
       THEN camera' = [camera EXCEPT
                         !.reads = camera.reads + 1,
                         !.threads[t].frame = <<ReadArray(camera.reads + 1)>>,
                         !.threads[t].pc = "got"]
       ELSE camera' = [camera EXCEPT
                         !.read_released = camera.read_released
                                           \/ camera.caps[camera.cap] = "released",
                         !.threads[t].pc = "loop"]
  /\ UNCHANGED <<users, nextId, call, sess, logs, pages>>

(* _read_frames: "if ret: with self.lock:" is entered *)
ThreadEnter(t) ==
  /\ t \in 1..Len(camera.threads)
  /\ camera.threads[t].pc = "got"
  /\ CanAcquire(camera.lock)
  /\ camera' = [camera EXCEPT !.lock = HeldByThread(t), !.threads[t].pc = "locked"]
  /\ UNCHANGED <<users, nextId, call, sess, logs, pages>>

(* _read_frames: "self.frame = frame", the lock is released, the thread    *)
(* sleeps and tests is_running again                                       *)
ThreadWrite(t) ==
  /\ t \in 1..Len(camera.threads)
  /\ camera.threads[t].pc = "locked"
  /\ camera' = [camera EXCEPT !.frame = camera.threads[t].frame,
                              !.lock = Unlocked,
                              !.threads[t].pc = "loop"]
  /\ UNCHANGED <<users, nextId, call, sess, logs, pages>>

(* ------------------ the registration pages: Spec ---------------------- *)

NoCall ==
  [op |-> "none", use_insightface |-> FALSE, faces |-> <<>>, threshold |-> DefaultConfidence,
   stored |-> <<>>, raised |-> FALSE, matches |-> <<>>, scans |-> <<>>,
   exists |-> FALSE, user_info |-> NoUserInfo,
   image |-> Frame, display_image |-> Frame, crops |-> <<>>,
   detections |-> <<>>, embedding |-> NoEmbedding, face_image |-> NoImage,
   status |-> FALSE, message |-> "", bbox |-> <<>>, repeat |-> FALSE]

(* The store is empty and each session has constructed its FaceProcessor   *)
(* on the backend its installation offers.                                 *)
Init ==
  /\ users = <<>>
  /\ nextId = 1
  /\ call = NoCall
  /\ sess \in [Sessions -> {IdleSession(b) : b \in Backends}]
  /\ logs = <<>>
  /\ pages = NewPages
  /\ camera = NewCamera

Next ==
  \/ \E s \in Sessions : AddPageCheck(s)
  \/ \E s \in Sessions : AddPageForm(s)
  \/ \E s \in Sessions : AddUserInsert(s)
  \/ \E s \in Sessions : EditPageForm(s)
  \/ \E s \in Sessions : UpdateUserWrite(s)

Spec == Init /\ [][Next]_vars

(* ------------- the pages that write the store: SpecStore ------------- *)

(* The registration pages with the delete modal next to them *)
NextStore ==
  \/ Next
  \/ \E s \in Sessions : DeletePage(s)
  \/ \E s \in Sessions : DeleteUserFind(s)
  \/ \E s \in Sessions : DeleteUserRemove(s)

SpecStore == Init /\ [][NextStore]_vars

(* ------- scans next to the writes of other sessions: SpecSnapshot ---- *)

(* The pages of SpecStore and the recognition page, with the two matching *)
(* operations taking two steps each: the read of the gallery, then the     *)
(* scan. The other session takes its steps in between.                     *)
InitSnapshot ==
  /\ users = <<>>
  /\ nextId = 1
  /\ call = NoCall
  /\ \E b \in Backends : sess = [s \in Sessions |-> IdleSession(b)]
  /\ logs = <<>>
  /\ pages = NewPages
  /\ camera = NewCamera

NextSnapshot ==
  \/ \E s \in Sessions : AddPageRead(s)
  \/ \E s \in Sessions : AddPageScan(s)
  \/ \E s \in Sessions : AddPageForm(s)
  \/ \E s \in Sessions : AddUserInsert(s)
  \/ \E s \in Sessions : EditPageForm(s)
  \/ \E s \in Sessions : UpdateUserWrite(s)
  \/ \E s \in Sessions : DeletePage(s)
  \/ \E s \in Sessions : DeleteUserFind(s)
  \/ \E s \in Sessions : DeleteUserRemove(s)
  \/ \E s \in Sessions : RecognitionRead(s)
  \/ \E s \in Sessions : RecognitionScan(s)
  \/ \E s \in Sessions : RecognitionShow(s)

SpecSnapshot == InitSnapshot /\ [][NextSnapshot]_vars

(* ------------------------ the Camera: SpecCamera --------------------- *)

InitCamera ==
  /\ users = <<>>
  /\ nextId = 1
  /\ call = NoCall
  /\ sess = [s \in Sessions |-> IdleSession(TRUE)]
  /\ logs = <<>>
  /\ pages = NewPages
  /\ camera = NewCamera

NextCamera ==
  \/ Start
  \/ StopBegin
  \/ StopEnd
  \/ GetFrameEnter
  \/ GetFrameReturn
  \/ \E t \in 1..MaxStarts : ThreadLoop(t)
  \/ \E t \in 1..MaxStarts : ThreadRead(t)
  \/ \E t \in 1..MaxStarts : ThreadEnter(t)
  \/ \E t \in 1..MaxStarts : ThreadWrite(t)

SpecCamera == InitCamera /\ [][NextCamera]_vars

(* ------------- the construction of FaceProcessor: SpecConstruct ------- *)

(* A session whose session_state has no face_processor yet *)
NewSession == [IdleSession(FALSE) EXCEPT !.pc = "new"]

(* What the try block of __init__ (import insightface, FaceAnalysis(...),  *)
(* prepare(...)) can end with: no exception, an ImportError of the import  *)
(* or of the initialisation, or another exception of the model             *)
(* initialisation (no model file and no download, a runtime error of the   *)
(* inference session)                                                      *)
ConstructionEvents ==
  { [stage |-> "none", error |-> "none"],
    [stage |-> "import", error |-> "ImportError"],
    [stage |-> "initialisation", error |-> "ImportError"],
    [stage |-> "initialisation", error |-> "RuntimeError"] }

(* "except ImportError as e:" *)
Caught(error) == error = "ImportError"

(* show(): "if 'face_processor' not in st.session_state:                   *)
(* st.session_state.face_processor = FaceProcessor()".  An exception that  *)
(* __init__ does not catch leaves the session without a face_processor     *)
(* and ends the page run with the error; message keeps the stage that      *)
(* failed.                                                                 *)
Construct(s) ==
  /\ sess[s].pc = "new"
  /\ \E event \in ConstructionEvents :
       IF event.error = "none"
       THEN sess' = [sess EXCEPT ![s] = IdleSession(TRUE)]
       ELSE IF Caught(event.error)
       THEN sess' = [sess EXCEPT ![s] = IdleSession(FALSE)]
       ELSE sess' = [sess EXCEPT ![s].pc = "crashed", ![s].message = event.stage]
  /\ UNCHANGED <<users, nextId, call, logs, pages, camera>>

(* The next run of the page of a session without a face_processor *)
Rerun(s) ==
  /\ sess[s].pc = "crashed"
  /\ sess' = [sess EXCEPT ![s] = NewSession]
  /\ UNCHANGED <<users, nextId, call, logs, pages, camera>>

InitConstruct ==
  /\ users = <<>>
  /\ nextId = 1
  /\ call = NoCall
  /\ sess = [s \in Sessions |-> NewSession]
  /\ logs = <<>>
  /\ pages = NewPages
  /\ camera = NewCamera

NextConstruct ==
  \/ \E s \in Sessions : Construct(s)
  \/ \E s \in Sessions : Rerun(s)
  \/ Next

SpecConstruct == InitConstruct /\ [][NextConstruct]_vars

(* ------- registration next to the recognition page: SpecLive ---------- *)

(* Sessions that register users and sessions that run the recognition page *)
(* on the same store; the recognition runs write the logs collection.      *)
NextLive ==
  \/ \E s \in Sessions : AddPageCheck(s)
  \/ \E s \in Sessions : AddPageForm(s)
  \/ \E s \in Sessions : AddUserInsert(s)
  \/ \E s \in Sessions : RecognitionPage(s)
  \/ \E s \in Sessions : RecognitionShow(s)

SpecLive == Init /\ [][NextLive]_vars

(* --------------- the matching operations alone: SpecMatch ------------- *)

(* One matching call on a stored gallery.  The galleries are those the     *)
(* store can hold: users of either embedding family in any order (sessions *)
(* of both backends register into the same store, and the edit modal       *)
(* stores any embedding for any user).                                     *)
InitName(i) == IF i % 2 = 1 THEN "ann" ELSE "bob"

InitCard(i) == IF i = 1 THEN "c1" ELSE IF i = 2 THEN "c2" ELSE IF i = 3 THEN "c3" ELSE "c4"

Galleries ==
  UNION { { [i \in 1..n |-> UserDoc(i, InitName(i), InitCard(i), es[i])] :
            es \in [1..n -> Embeddings] } : n \in 0..MaxGallery }

InitMatch ==
  /\ users \in Galleries
  /\ nextId = Len(users) + 1
  /\ call = NoCall
  /\ sess = [s \in Sessions |-> IdleSession(TRUE)]
  /\ logs = <<>>
  /\ pages = NewPages
  /\ camera = NewCamera

(* The arguments and the result of a call                                  *)
(* detect_face_realtime(frame, get_all_embeddings())                       *)
DetectRecord(use_insightface, faces) ==
  LET stored == get_all_embeddings(users)
      r == detect_face_realtime(use_insightface, Frame,
                                Detected(use_insightface, faces), stored)
  IN [NoCall EXCEPT !.op = "detect", !.use_insightface = use_insightface,
                    !.faces = faces,
                    !.threshold = RecognitionThreshold(use_insightface),
                    !.stored = stored, !.raised = r.raised,
                    !.matches = r.matches, !.scans = r.scans,
                    !.image = r.image, !.display_image = r.display_image,
                    !.crops = r.crops]

(* The arguments and the result of a call                                  *)
(* check_face_exists(face_embedding, similarity_threshold=0.6)             *)
CheckRecord(face_embedding) ==
  LET r == check_face_exists(users, face_embedding, RegistrationThreshold)
  IN [NoCall EXCEPT !.op = "check", !.faces = <<face_embedding>>,
                    !.threshold = RegistrationThreshold,
                    !.stored = get_all_embeddings(users),
                    !.raised = r.raised, !.scans = <<r.visited>>,
                    !.exists = r.exists, !.user_info = r.user_info]

(* A call detect_face_realtime(frame, get_all_embeddings()) *)
DetectCall ==
  /\ call.op = "none"
  /\ \E use_insightface \in Backends :
     \E faces \in Frames(use_insightface) :
       call' = DetectRecord(use_insightface, faces)
  /\ UNCHANGED <<users, nextId, sess, logs, pages, camera>>

(* A call check_face_exists(face_embedding, similarity_threshold=0.6) *)
CheckCall ==
  /\ call.op = "none"
  /\ \E face_embedding \in Embeddings :
       call' = CheckRecord(face_embedding)
  /\ UNCHANGED <<users, nextId, sess, logs, pages, camera>>

NextMatch == DetectCall \/ CheckCall

SpecMatch == InitMatch /\ [][NextMatch]_vars

(* ------------- matching calls one after another: SpecRepeat ---------- *)

(* One FaceProcessor and one Database serve call after call.  call is the  *)
(* last call made; repeat tells that the call before it had the same       *)
(* arguments (backend, probe embeddings, gallery).                         *)
RepeatGalleries ==
  UNION { { [i \in 1..n |-> UserDoc(i, InitName(i), InitCard(i), es[i])] :
            es \in [1..n -> Embeddings] } : n \in 0..MaxRepeatGallery }

RepeatFrames(use_insightface) ==
  UNION { [1..n -> BackendEmbeddings(use_insightface)] : n \in 0..MaxRepeatFaces }

(* The arguments of the call record next are those of the last call *)
SameArguments(next) ==
  /\ next.op = call.op
  /\ next.use_insightface = call.use_insightface
  /\ next.faces = call.faces
  /\ next.stored = call.stored

InitRepeat ==
  /\ users \in RepeatGalleries
  /\ nextId = Len(users) + 1
  /\ call = NoCall
  /\ sess = [s \in Sessions |-> IdleSession(TRUE)]
  /\ logs = <<>>
  /\ pages = NewPages
  /\ camera = NewCamera

(* A call of detect_face_realtime after any call *)
RepeatDetect ==
  /\ \E use_insightface \in Backends :
     \E faces \in RepeatFrames(use_insightface) :
       LET next == DetectRecord(use_insightface, faces)
       IN call' = [next EXCEPT !.repeat = SameArguments(next)]
  /\ UNCHANGED <<users, nextId, sess, logs, pages, camera>>

(* A call of check_face_exists after any call *)
RepeatCheck ==
  /\ \E face_embedding \in Embeddings :
       LET next == CheckRecord(face_embedding)
       IN call' = [next EXCEPT !.repeat = SameArguments(next)]
  /\ UNCHANGED <<users, nextId, sess, logs, pages, camera>>

NextRepeat == RepeatDetect \/ RepeatCheck

SpecRepeat == InitRepeat /\ [][NextRepeat]_vars

(* --------- the session logs of the recognition page: SpecLogs -------- *)

(* The list of a session that has logged n outcomes of unknown faces *)
LoggedBefore(n) ==
  [k \in 1..n |-> SessionEntry(FaceData(NoMatch), n + 1 - k)]

(* The galleries of the page: no user, or one user registered from one of  *)
(* the images the cameras bring                                            *)
PageGalleries ==
  {<<>>} \cup { <<UserDoc(1, InitName(1), InitCard(1), embedding)>> :
                  embedding \in Captures(TRUE) \cup Captures(FALSE) }

(* The sessions have the recognition page open on a stored gallery and     *)
(* have n entries in their lists: none, one less than the cap, or a full   *)
(* list                                                                    *)
InitLogs ==
  /\ users \in PageGalleries
  /\ nextId = Len(users) + 1
  /\ call = NoCall
  /\ \E b \in Backends : sess = [s \in Sessions |-> IdleSession(b)]
  /\ logs = <<>>
  /\ \E n \in {0, SessionLogCap - 1, SessionLogCap} :
       pages = [s \in Sessions |->
                  [NewPage EXCEPT !.recognition_logs = LoggedBefore(n), !.now = n]]
  /\ camera = NewCamera

NextLogs == \E s \in Sessions : LiveDetectionRun(s)

SpecLogs == InitLogs /\ [][NextLogs]_vars

(* ------------ extraction and cropping alone: SpecExtract -------------- *)

(* The boxes a detector reports for the faces of a frame.  InsightFace     *)
(* regresses the corners and can put them outside the frame; the cascade   *)
(* of OpenCV reports windows of the frame.                                 *)
FaceBoxes(use_insightface) ==
  IF use_insightface
  THEN { <<0, 0, 2, 2>>, <<1, 1, 3, 3>>, <<0, 0, 3, 3>>, <<-1, 0, 2, 2>>, <<2, 1, 5, 4>> }
  ELSE { <<0, 0, 2, 2>>, <<1, 1, 2, 2>>, <<0, 0, 3, 3>>, <<2, 0, 2, 3>> }

(* What a detector returns for a frame with up to MaxFaces faces *)
DetectorOutputs(use_insightface) ==
  UNION { [1..n -> { Detection(b, e) : b \in FaceBoxes(use_insightface),
                                       e \in Captures(use_insightface) }] :
          n \in 0..MaxFaces }

(* The coordinates of the boxes the crop expressions are evaluated on *)
BoxCoordinates == { -3, -1, 0, 2, 3, 4, 6 }

BoxSizes == { 1, 2, 5 }

(* Boxes of positive area anywhere around the frame: corners on            *)
(* InsightFace, corner and size on OpenCV                                  *)
AnyBoxes(use_insightface) ==
  IF use_insightface
  THEN { <<x1, y1, x2, y2>> : x1 \in BoxCoordinates, y1 \in BoxCoordinates,
                              x2 \in BoxCoordinates, y2 \in BoxCoordinates }
       \cap { b \in Seq(BoxCoordinates) : Len(b) = 4 /\ b[1] < b[3] /\ b[2] < b[4] }
  ELSE { <<x, y, w, h>> : x \in BoxCoordinates, y \in BoxCoordinates,
                          w \in BoxSizes, h \in BoxSizes }

InitExtract ==
  /\ users = <<>>
  /\ nextId = 1
  /\ call = NoCall
  /\ sess = [s \in Sessions |-> IdleSession(TRUE)]
  /\ logs = <<>>
  /\ pages = NewPages
  /\ camera = NewCamera

(* A call get_face_embedding(image) *)
ExtractCall ==
  /\ call.op = "none"
  /\ \E use_insightface \in Backends :
     \E faces \in DetectorOutputs(use_insightface) :
       LET r == get_face_embedding(use_insightface, Frame, faces)
       IN call' = [NoCall EXCEPT !.op = "extract", !.use_insightface = use_insightface,
                                 !.detections = faces, !.embedding = r.embedding,
                                 !.face_image = r.face_image, !.status = r.status,
                                 !.message = r.message, !.bbox = r.bbox]
  /\ UNCHANGED <<users, nextId, sess, logs, pages, camera>>

(* The crop of a box as get_face_embedding and detect_face_realtime take   *)
(* it: the same slice expression at lines 67-68 and 156-157 (InsightFace)  *)
(* and at lines 84 and 175 (OpenCV)                                        *)
CropCall ==
  /\ call.op = "none"
  /\ \E use_insightface \in Backends :
     \E bbox \in AnyBoxes(use_insightface) :
       call' = [NoCall EXCEPT !.op = "crop", !.use_insightface = use_insightface,
                              !.bbox = bbox,
                              !.face_image = <<CropBounds(use_insightface, bbox, Frame)>>]
  /\ UNCHANGED <<users, nextId, sess, logs, pages, camera>>

NextExtract == ExtractCall \/ CropCall

SpecExtract == InitExtract /\ [][NextExtract]_vars

(* ======================= properties of the matching =================== *)

(* The similarity a matching path computes between a probe and a stored    *)
(* embedding of the same length: the cosine in check_face_exists and on    *)
(* the InsightFace backend, 1 / (1 + distance) on the OpenCV fallback.     *)
CallUsesCosine == call.op = "check" \/ call.use_insightface

EntrySim(probe, i) ==
  IF CallUsesCosine THEN CosineSimilarity(probe, call.stored[i].embedding)
  ELSE DistanceSimilarity(probe, call.stored[i].embedding)

(* Entry i has a similarity to the probe: same length, and a number *)
Scored(probe, i) ==
  /\ Len(probe) = Len(call.stored[i].embedding)
  /\ ~IsNaN(EntrySim(probe, i))

Mismatched(probe, i) == Len(probe) # Len(call.stored[i].embedding)

Entries == 1..Len(call.stored)

Exceeds(probe, i) == Scored(probe, i) /\ GT(EntrySim(probe, i), call.threshold)

(* The maximum similarity over the gallery is above the threshold *)
MaxExceeds(probe) == \E i \in Entries : Exceeds(probe, i)

(* Entry k has the maximum similarity of the gallery *)
IsMax(probe, k) ==
  /\ Scored(probe, k)
  /\ \A i \in Entries : Scored(probe, i) => ~GT(EntrySim(probe, i), EntrySim(probe, k))

(* Entry k is the first entry in iteration order with the maximum *)
IsFirstMax(probe, k) ==
  /\ IsMax(probe, k)
  /\ \A i \in Entries : (i < k /\ Scored(probe, i)) => GT(EntrySim(probe, k), EntrySim(probe, i))

FaceIndexes == 1..Len(call.faces)

(* Face j of a detect call was reported recognized *)
Recognized(j) == ~call.raised /\ call.matches[j].recognized

(* C1: in detect_face_realtime on either backend and in check_face_exists, *)
(* a face is reported recognized (a duplicate reported) iff the maximum    *)
(* similarity over the gallery is strictly greater than the threshold; an  *)
(* entry exactly at the threshold is a non-match.                          *)
C1_StrictThreshold ==
  /\ call.op = "detect" =>
       \A j \in FaceIndexes : Recognized(j) <=> MaxExceeds(call.faces[j])
  /\ call.op = "check" => (call.exists <=> MaxExceeds(call.faces[1]))

(* C2: detect_face_realtime visits every gallery entry for every face, and *)
(* a reported match is an entry with the maximum similarity of the whole   *)
(* gallery, the confidence being that maximum.                             *)
C2_FullScanBestMatch ==
  call.op = "detect" =>
    /\ ~call.raised
    /\ \A j \in FaceIndexes :
         /\ call.scans[j] = Len(call.stored)
         /\ call.matches[j].recognized =>
              \E k \in Entries :
                /\ call.stored[k].user_id = call.matches[j].user_id
                /\ IsMax(call.faces[j], k)
                /\ NumEq(call.matches[j].confidence, EntrySim(call.faces[j], k))

(* C3: when several entries reach the same maximum similarity above the    *)
(* threshold, the match detect_face_realtime returns is the first of them  *)
(* in the order of get_all_embeddings; a later entry with an equal score   *)
(* does not replace it.                                                    *)
C3_FirstSeenTieBreak ==
  (call.op = "detect" /\ ~call.raised) =>
    \A j \in FaceIndexes : \A k \in Entries :
      (IsFirstMax(call.faces[j], k) /\ Exceeds(call.faces[j], k)) =>
        /\ call.matches[j].recognized
        /\ call.matches[j].user_id = call.stored[k].user_id
        /\ call.matches[j].match = call.stored[k].user_data

(* A returned match for which a later entry had the same, maximal score *)
C3_Witness ==
  /\ call.op = "detect"
  /\ ~call.raised
  /\ \E j \in FaceIndexes : \E k, i \in Entries :
       /\ k < i
       /\ IsFirstMax(call.faces[j], k)
       /\ Exceeds(call.faces[j], k)
       /\ IsMax(call.faces[j], i)
       /\ call.matches[j].user_id = call.stored[k].user_id

(* C4: on either backend a gallery entry whose length differs from the     *)
(* probe's is skipped: no error, never the selected match, every entry of  *)
(* the gallery is still gone through and every face still has an outcome.  *)
C4_MismatchSkipped ==
  (call.op = "detect"
   /\ \E j \in FaceIndexes : \E i \in Entries : Mismatched(call.faces[j], i)) =>
    /\ ~call.raised
    /\ Len(call.matches) = Len(call.faces)
    /\ \A j \in FaceIndexes :
         /\ call.scans[j] = Len(call.stored)
         /\ \A i \in Entries :
              (Mismatched(call.faces[j], i) /\ call.matches[j].recognized) =>
                call.matches[j].user_id # call.stored[i].user_id

(* C5: in check_face_exists a stored embedding of another length is not a  *)
(* match for that entry only: a later entry above the duplicate threshold  *)
(* still gives exists = true.                                              *)
C5_CheckSkipsMismatch ==
  call.op = "check" =>
    \A i, k \in Entries :
      (i < k /\ Mismatched(call.faces[1], i) /\ Exceeds(call.faces[1], k)) => call.exists

(* C6: check_face_exists is best-match with the duplicate threshold:       *)
(* exists iff some entry exceeds the threshold, and then the id, name and  *)
(* similarity returned are those of the entry with the maximum similarity  *)
(* (the first one in iteration order on ties).                             *)
C6_CheckIsBestMatch ==
  call.op = "check" =>
    /\ call.exists <=> MaxExceeds(call.faces[1])
    /\ call.exists =>
         \E k \in Entries :
           /\ IsFirstMax(call.faces[1], k)
           /\ call.user_info.id = call.stored[k].user_id
           /\ call.user_info.name = call.stored[k].user_data.name
           /\ NumEq(call.user_info.similarity, EntrySim(call.faces[1], k))

(* C10: a face that check_face_exists (threshold 0.6) flags as a duplicate *)
(* against the gallery is reported recognized by detect_face_realtime      *)
(* against the same gallery, on either backend; a face whose embedding is  *)
(* stored in the gallery is recognized with confidence 1.0.                *)
C10_DuplicateIsRecognized ==
  call.op = "detect" =>
    \A j \in FaceIndexes :
      /\ check_face_exists(users, call.faces[j], RegistrationThreshold).exists =>
           Recognized(j)
      /\ (\E i \in Entries : call.stored[i].embedding = call.faces[j]) =>
           (Recognized(j) /\ NumEq(call.matches[j].confidence, Rat(1, 1)))

(* ===================== properties of the page runs ==================== *)

(* The embedding stored for a user id, NoEmbedding when the id is not stored *)
StoredEmbedding(us, id) ==
  IF HasUser(us, id)
  THEN (CHOOSE u \in {us[i] : i \in 1..Len(us)} : u.id = id).face_embedding
  ELSE NoEmbedding

StoredIds(us) == {us[i].id : i \in 1..Len(us)}

(* Session s is in a run whose check_face_exists call was made on          *)
(* embedding e and returned exists = false                                 *)
CheckedNotExisting(s, e) == sess[s].checked = <<e>> /\ ~sess[s].face_exists

(* C7: in the Add User flow add_user is invoked for an embedding only      *)
(* after check_face_exists ran on that embedding in the same page run and  *)
(* returned exists = false; a run whose check returned exists = true ends  *)
(* without the form and without an insert.                                 *)
C7_AddOnlyAfterCheck ==
  [][\A s \in Sessions :
       /\ (sess[s].pc = "checked" /\ sess[s].face_exists) =>
            (sess'[s].pc # "inserting" /\ (sess'[s] # sess[s] => users' = users))
       /\ sess'[s].pc = "inserting" =>
            (sess'[s].checked = <<sess'[s].face_embedding>> /\ ~sess'[s].face_exists)
       /\ (sess[s].pc = "inserting" /\ sess'[s].pc # "inserting"
           /\ Len(users') > Len(users)) =>
            /\ CheckedNotExisting(s, users'[Len(users')].face_embedding)
            /\ sess[s].face_embedding = users'[Len(users')].face_embedding]_vars

(* A run has found a duplicate of a stored user and is about to return *)
C7_Witness ==
  \E s \in Sessions :
    /\ sess[s].pc = "checked"
    /\ sess[s].face_exists
    /\ HasUser(users, sess[s].existing_user.id)

(* C8: every write of an embedding to the store, by add_user or by         *)
(* update_user with a new face_embedding, is made by a run whose           *)
(* check_face_exists call on that embedding returned exists = false.       *)
C8_EveryWriteAfterCheck ==
  [][\A id \in StoredIds(users') :
       StoredEmbedding(users', id) # StoredEmbedding(users, id) =>
         \E s \in Sessions :
           /\ sess'[s] # sess[s]
           /\ CheckedNotExisting(s, StoredEmbedding(users', id))]_vars

ZeroNorm(x) == Dot(x, x) = 0

(* The comparison of the probe with entry i involves a vector of zero norm *)
ZeroNormPair(probe, i) == ZeroNorm(probe) \/ ZeroNorm(call.stored[i].embedding)

(* C11: when the probe or a stored embedding has zero norm, the comparison *)
(* yields "no match" for that entry and no exception:                      *)
(* detect_face_realtime returns an outcome for every face and never the    *)
(* zero-norm entry as its match, and check_face_exists goes on to the      *)
(* remaining entries (it reports a later duplicate, and when it reports    *)
(* none it has examined the whole gallery).                                *)
C11_ZeroNormNoMatch ==
  /\ (call.op = "detect"
      /\ \E j \in FaceIndexes : \E i \in Entries : ZeroNormPair(call.faces[j], i)) =>
       /\ ~call.raised
       /\ Len(call.matches) = Len(call.faces)
       /\ \A j \in FaceIndexes : \A i \in Entries :
            (ZeroNormPair(call.faces[j], i) /\ call.matches[j].recognized) =>
              call.matches[j].user_id # call.stored[i].user_id
  /\ (call.op = "check"
      /\ \E i \in Entries : ZeroNormPair(call.faces[1], i)) =>
       /\ ~call.raised
       /\ \A i \in Entries :
            ZeroNormPair(call.faces[1], i) => call.user_info.id # call.stored[i].user_id
       /\ ~call.exists => call.scans[1] = Len(call.stored)

(* C12: with an empty gallery every detected face is returned as not       *)
(* recognized (user_id none, match none, confidence 0) whatever the probe, *)
(* without an error, and check_face_exists returns (False, None).          *)
C12_EmptyGalleryNoMatch ==
  Len(call.stored) = 0 =>
    /\ call.op = "detect" =>
         /\ ~call.raised
         /\ Len(call.matches) = Len(call.faces)
         /\ \A j \in FaceIndexes :
              /\ ~call.matches[j].recognized
              /\ call.matches[j].user_id = NoneId
              /\ call.matches[j].match = NoData
              /\ NumEq(call.matches[j].confidence, Rat(0, 1))
    /\ call.op = "check" =>
         /\ ~call.exists
         /\ call.user_info = NoUserInfo
         /\ ~call.raised

(* A frame with faces was matched against the empty gallery *)
C12_Witness ==
  /\ call.op = "detect"
  /\ Len(call.stored) = 0
  /\ Len(call.faces) = MaxFaces
  /\ Len(call.matches) = MaxFaces

(* ================== the frame and the outcomes of a call ============== *)

(* The rectangles on the frame detect_face_realtime returns *)
Rectangles == call.display_image.drawn

(* C13: when no face is detected, detect_face_realtime returns an empty    *)
(* outcome list and a copy of the input frame with nothing drawn on it,    *)
(* and raises no error; for every frame the number of outcomes equals the  *)
(* number of detected faces and exactly one rectangle is drawn per         *)
(* outcome (green for a recognized face, red for an unknown one).          *)
C13_OneOutcomePerFace ==
  call.op = "detect" =>
    /\ Len(call.faces) = 0 =>
         (~call.raised /\ call.matches = <<>> /\ call.display_image = Frame)
    /\ Len(call.matches) = Len(call.faces)
    /\ Len(Rectangles) = Len(call.matches)
    /\ \A j \in 1..Len(call.matches) :
         Rectangles[j].color = IF call.matches[j].recognized THEN Green ELSE Red

(* C14: detect_face_realtime is a pure transform of (frame, gallery): the  *)
(* caller's frame has the content it had before the call (the rectangles   *)
(* are on the copy), the gallery list is the one that was passed, and the  *)
(* call writes neither the users collection nor the logs collection.       *)
C14_PureTransform ==
  [][call'.op = "detect" =>
       /\ call'.image = Frame
       /\ call'.stored = get_all_embeddings(users)
       /\ users' = users
       /\ nextId' = nextId
       /\ logs' = logs]_vars

(* A call that drew a box for every face of the frame on its copy *)
C14_Witness ==
  /\ call.op = "detect"
  /\ ~call.raised
  /\ Len(call.faces) = MaxFaces
  /\ Len(call.display_image.drawn) = MaxFaces
  /\ call.image.drawn = <<>>
  /\ Len(call.stored) > 0

(* ================= properties of extraction and cropping ============== *)

(* Detection k has the largest area of the frame and is the first of the   *)
(* detections with that area                                               *)
LargestFirstDetected(k) ==
  \A i \in 1..Len(call.detections) :
    /\ Area(call.use_insightface, call.detections[i].bbox)
         <= Area(call.use_insightface, call.detections[k].bbox)
    /\ i < k => Area(call.use_insightface, call.detections[i].bbox)
                  < Area(call.use_insightface, call.detections[k].bbox)

(* C15: when get_face_embedding detects several faces, on either backend   *)
(* it returns the embedding (and the crop) of the detection with the       *)
(* largest bounding-box area, and of the first detected one when several   *)
(* share the largest area.                                                 *)
C15_LargestFirstDetectedFace ==
  (call.op = "extract" /\ Len(call.detections) > 1) =>
    \E k \in 1..Len(call.detections) :
      /\ LargestFirstDetected(k)
      /\ call.status
      /\ call.embedding = call.detections[k].embedding
      /\ call.bbox = call.detections[k].bbox

(* Two detections share the largest area and carry different embeddings;   *)
(* the result is the first one's                                           *)
C15_Witness ==
  /\ call.op = "extract"
  /\ \E k, i \in 1..Len(call.detections) :
       /\ k < i
       /\ LargestFirstDetected(k)
       /\ Area(call.use_insightface, call.detections[i].bbox)
            = Area(call.use_insightface, call.detections[k].bbox)
       /\ call.detections[i].embedding # call.detections[k].embedding
       /\ call.embedding = call.detections[k].embedding

(* The index a[lo:...] or a[...:hi] stands for on an axis of length n:     *)
(* a negative bound counts from the end, a bound past either end is        *)
(* clipped                                                                 *)
SliceBound(b, n) == IF b < 0 THEN Max(b + n, 0) ELSE Min(b, n)

(* The indexes of a[lo:hi] on an axis of length n *)
SliceIndexes(lo, hi, n) ==
  { k \in 0..(n - 1) : SliceBound(lo, n) <= k /\ k < SliceBound(hi, n) }

(* The pixels (row, column) of the slice a crop is taken with *)
CropPixels(crop, image) ==
  SliceIndexes(crop.r0, crop.r1, image.height)
    \X SliceIndexes(crop.c0, crop.c1, image.width)

(* The pixels of the image that lie in the box *)
BoxPixels(use_insightface, bbox, image) ==
  LET x1 == bbox[1]
      y1 == bbox[2]
      x2 == IF use_insightface THEN bbox[3] ELSE bbox[1] + bbox[3]
      y2 == IF use_insightface THEN bbox[4] ELSE bbox[2] + bbox[4]
  IN { p \in (0..(image.height - 1)) \X (0..(image.width - 1)) :
         y1 <= p[1] /\ p[1] < y2 /\ x1 <= p[2] /\ p[2] < x2 }

WithinAxis(b, n) == 0 <= b /\ b <= n

(* C16: for every box, including boxes with negative coordinates or        *)
(* extending past the right or bottom edge, the crop is taken with row     *)
(* bounds within [0, height] and column bounds within [0, width], and is   *)
(* exactly the intersection of the box with the image, on either backend.  *)
C16_CropWithinImage ==
  (call.op \in {"extract", "crop"} /\ Len(call.face_image) = 1) =>
    LET crop == call.face_image[1]
    IN /\ WithinAxis(crop.r0, Frame.height)
       /\ WithinAxis(crop.r1, Frame.height)
       /\ WithinAxis(crop.c0, Frame.width)
       /\ WithinAxis(crop.c1, Frame.width)
       /\ CropPixels(crop, Frame) = BoxPixels(call.use_insightface, call.bbox, Frame)

(* ============ properties of extraction failures in the pages ========== *)

(* Session s takes a step *)
Steps(s) == sess'[s] # sess[s]

(* No stored embedding is replaced or added by the step *)
EmbeddingsKept ==
  \A id \in StoredIds(users') : StoredEmbedding(users', id) = StoredEmbedding(users, id)

(* C17: when no face is found, get_face_embedding returns the failure      *)
(* value (embedding None, image None, status False, the "no face"          *)
(* message); a run of the Add User page whose image showed no face makes   *)
(* no check_face_exists call and no add_user call, and an update_user of   *)
(* the edit modal after such an image replaces no embedding.               *)
C17_NoFaceStopsTheRun ==
  [][\A s \in Sessions :
       /\ sess'[s].capture = "no face" =>
            /\ sess'[s].pc \in {"noface", "updating"}
            /\ sess'[s].face_embedding = NoEmbedding
            /\ sess'[s].checked = <<>>
       /\ sess'[s].pc = "noface" =>
            sess'[s].message = "No face detected in the image"
       /\ (sess[s].capture = "no face" /\ Steps(s)) =>
            (sess'[s].pc = "idle" /\ EmbeddingsKept)]_vars

(* A run of the Add User page stopped on an image without a face while an  *)
(* edit whose new image showed no face is about to call update_user        *)
C17_Witness ==
  \E s, t \in Sessions :
    /\ sess[s].pc = "noface"
    /\ sess[t].pc = "updating"
    /\ sess[t].capture = "no face"

(* C18: constructing a FaceProcessor always succeeds with one backend      *)
(* active: when the InsightFace backend is unavailable, by its import or   *)
(* by its model initialisation, the fallback is constructed; the backend   *)
(* of a constructed FaceProcessor never changes.                           *)
C18_ConstructionFallsBack ==
  [][\A s \in Sessions :
       /\ (sess[s].pc = "new" /\ Steps(s)) => sess'[s].pc = "idle"
       /\ (sess[s].pc \notin {"new", "crashed"} /\ Steps(s)) =>
            /\ sess'[s].pc \notin {"new", "crashed"}
            /\ sess'[s].use_insightface = sess[s].use_insightface]_vars

(* C19: a failure of the store read or of a comparison inside              *)
(* check_face_exists is not taken for "no duplicate": the run does not     *)
(* offer the registration form and does not insert the user.               *)
C19_CheckFailureStopsRegistration ==
  \A s \in Sessions :
    sess[s].check_raised =>
      /\ sess[s].pc # "inserting"
      /\ sess[s].pc = "checked" =>
           ~FormShown(sess[s].face_embedding, sess[s].face_exists, sess[s].existing_user)

(* No two stored users share an id_card_number *)
UniqueCards(us) ==
  \A i, j \in 1..Len(us) : i # j => us[i].id_card_number # us[j].id_card_number

C24_OutcomeConsistent ==
  call.op = "detect" =>
    \A j \in 1..Len(call.matches) :
      LET m == call.matches[j]
      IN /\ m.recognized <=> m.user_id # NoneId
         /\ m.recognized <=> m.match # NoData
         /\ m.recognized <=> MaxExceeds(call.faces[j])
         /\ ~m.recognized => m.confidence = DefaultConfidence
         /\ m.recognized =>
              /\ GT(m.confidence, call.threshold)
              /\ \E k \in Entries :
                   /\ call.stored[k].user_id = m.user_id
                   /\ call.stored[k].user_data = m.match
                   /\ Scored(call.faces[j], k)
                   /\ NumEq(m.confidence, EntrySim(call.faces[j], k))

(* A frame of which one face was recognized and another was not *)
C24_Witness ==
  /\ call.op = "detect"
  /\ \E i, j \in 1..Len(call.matches) :
       /\ call.matches[i].recognized
       /\ ~call.matches[j].recognized
       /\ \E k \in Entries : Scored(call.faces[j], k)

(* ================== two registrations of the same face ================ *)

(* Two embeddings the duplicate check takes for the same face *)
SameFace(x, y) ==
  /\ ShapesAligned(x, y)
  /\ AboveThreshold(CosineSimilarity(x, y), RegistrationThreshold)

(* C25: under any interleaving of two registration sessions the gallery    *)
(* never gets a second identity of a face it holds: the insert_one of a    *)
(* session whose duplicate check ran without an error stores no embedding  *)
(* that exceeds the duplicate threshold against a stored one, also when    *)
(* both sessions ran their check before either insert.                     *)
C25_NoDuplicateUnderRace ==
  [][\A s \in Sessions :
       (sess[s].pc = "inserting" /\ ~sess[s].check_raised /\ Len(users') > Len(users)) =>
         \A i \in 1..Len(users) :
           ~SameFace(users[i].face_embedding, sess[s].face_embedding)]_vars

(* ====================== repeated matching calls ======================= *)

StoredDoc(us, id) == CHOOSE u \in {us[i] : i \in 1..Len(us)} : u.id = id

(* The documents of all users but id are what they were *)
OthersKept(id) ==
  \A j \in StoredIds(users) \ {id} : HasUser(users', j) /\ StoredDoc(users', j) = StoredDoc(users, j)

(* The update_one of a session in "updating" goes through: the user is     *)
(* stored and the card number is not held by another user                  *)
UpdateGoesThrough(s) ==
  /\ HasUser(users, sess[s].user_id)
  /\ ~CardTakenByOther(users, sess[s].id_card_number, sess[s].user_id)

(* C21: a stored embedding changes only by replacement as a whole or by    *)
(* deletion: update_user without a new face_embedding leaves the stored    *)
(* embedding of the user as it is and writes the profile fields,           *)
(* update_user with a new face_embedding stores that embedding for that    *)
(* user and changes no other user, and a failed update (conflict, user     *)
(* not found) leaves the collection unchanged.                             *)
C21_EmbeddingReplacedWhole ==
  [][\A s \in Sessions :
       (sess[s].pc = "updating" /\ Steps(s)) =>
         LET id == sess[s].user_id
         IN /\ OthersKept(id)
            /\ StoredIds(users') = StoredIds(users)
            /\ ~UpdateGoesThrough(s) => users' = users
            /\ UpdateGoesThrough(s) =>
                 /\ StoredDoc(users', id).name = sess[s].name
                 /\ StoredDoc(users', id).id_card_number = sess[s].id_card_number
                 /\ StoredEmbedding(users', id) =
                      IF sess[s].face_embedding = NoEmbedding
                      THEN StoredEmbedding(users, id)
                      ELSE sess[s].face_embedding]_vars

(* An update_user call is due for a user that was deleted in the meantime, *)
(* next to a stored user                                                   *)
C21_Witness ==
  \E s \in Sessions :
    /\ sess[s].pc = "updating"
    /\ ~HasUser(users, sess[s].user_id)
    /\ Len(users) > 0

(* The ids the store has handed out *)
IssuedIds == 1..(nextId - 1)

(* C27: deleting an identity removes its embedding with it: after a        *)
(* successful delete_user(id) no gallery read by get_all_embeddings        *)
(* contains id again and no duplicate check returns it; delete_user on an  *)
(* id that is not stored returns failure and leaves the collection         *)
(* unchanged.                                                              *)
C27_DeletedStaysDeleted ==
  [][/\ \A s \in Sessions :
          /\ (sess[s].pc = "removing" /\ Steps(s) /\ HasUser(users, sess[s].user_id)) =>
               /\ ~HasUser(users', sess[s].user_id)
               /\ OthersKept(sess[s].user_id)
               /\ sess'[s].pc = "idle"
          /\ (sess[s].pc \in {"deleting", "removing"} /\ Steps(s)
              /\ ~HasUser(users, sess[s].user_id)) =>
               /\ users' = users
               /\ sess'[s].pc = "idle" \/ sess'[s].message # ""
          /\ (Steps(s) /\ sess'[s].pc = "checked" /\ sess'[s].face_exists) =>
               HasUser(users, sess'[s].existing_user.id)
     /\ \A id \in IssuedIds :
          ~HasUser(users, id) =>
            \A i \in 1..Len(get_all_embeddings(users')) :
              get_all_embeddings(users')[i].user_id # id]_vars

(* delete_user was called for a user another session had deleted, and      *)
(* returned "not found"; other users are stored                            *)
C27_Witness ==
  \E s \in Sessions :
    /\ sess[s].pc = "deleting"
    /\ sess[s].message = "User not found"
    /\ sess[s].user_id \in IssuedIds
    /\ ~HasUser(users, sess[s].user_id)
    /\ Len(users) > 0

(* match_data is the outcome of the matching of a face the camera can     *)
(* bring against the list embeddings                                       *)
ScannedAgainst(match_data, use_insightface, embeddings) ==
  \E embedding \in Captures(use_insightface) :
    LET r == MatchFace(use_insightface, embedding, embeddings)
    IN ~r.raised /\ match_data = FaceData(r.best_match)

(* C23: each matching operation compares against the list it read before   *)
(* its scan: while a session is between the read and the scan no step      *)
(* changes its list, each outcome of detect_face_realtime is that of a     *)
(* scan of that list, and the answer of check_face_exists is that of a     *)
(* loop over that list, whatever add_user, update_user or delete_user of   *)
(* another session has done to the collection in between.                  *)
C23_ScanReadsSnapshot ==
  [][\A s \in Sessions :
       /\ sess[s].pc = "scanning" /\ sess'[s].pc = "scanning"
            => sess'[s].embeddings = sess[s].embeddings
       /\ sess[s].pc = "checking" /\ sess'[s].pc = "checking"
            => sess'[s].found_users = sess[s].found_users
       /\ sess[s].pc = "scanning" /\ sess'[s].pc = "detected"
            => \A j \in 1..Len(sess'[s].matches) :
                 ScannedAgainst(sess'[s].matches[j], sess[s].use_insightface,
                                sess[s].embeddings)
       /\ sess[s].pc = "checking" /\ sess'[s].pc = "checked"
            => LET r == check_face_exists(sess[s].found_users,
                                          sess[s].face_embedding,
                                          RegistrationThreshold)
               IN /\ sess'[s].face_exists = r.exists
                  /\ sess'[s].existing_user = r.user_info]_vars

(* A scan has recognised a user whose document was deleted after the list  *)
(* was read                                                                *)
C23_Witness ==
  \E s \in Sessions :
    /\ sess[s].pc = "detected"
    /\ \E i \in 1..Len(sess[s].matches) :
         /\ sess[s].matches[i].recognized
         /\ ~HasUser(users, sess[s].matches[i].user_id)

(* The entries a step has added to the logs collection *)
Persisted == SubSeq(logs', Len(logs) + 1, Len(logs'))

(* The session s has made a run of the recognition page in this step *)
PageRan(s) == pages'[s] # pages[s]

(* The outcomes detect_face_realtime returns for the photo of session s    *)
(* after the step, none when the call raised                               *)
OutcomesOfPhoto(s) ==
  LET r == detect_face_realtime(sess[s].use_insightface, Frame,
                                Detected(sess[s].use_insightface,
                                         pages'[s].photo.faces),
                                get_all_embeddings(users))
  IN IF r.raised THEN <<>> ELSE r.matches

(* C26: every outcome of a captured frame is logged once, and only once:   *)
(* a run on a new photo adds to the logs collection and to the head of the *)
(* session list one entry per outcome, in the order of the outcomes, with  *)
(* status "recognized" and the matched person_id for a recognized outcome  *)
(* and "unknown", no person_id and confidence 0 otherwise; a run that      *)
(* brings no new photo adds no entry to either.                            *)
C26_LoggedExactlyOnce ==
  [][\A s \in Sessions :
       PageRan(s) =>
         LET added == pages'[s].now - pages[s].now
         IN /\ Len(Persisted) = added
            /\ pages'[s].event # "capture" => added = 0
            /\ pages'[s].event = "capture" => added = Len(OutcomesOfPhoto(s))
            /\ \A j \in 1..added :
                 LET e == pages'[s].recognition_logs[added + 1 - j]
                 IN /\ added + 1 - j <= Len(pages'[s].recognition_logs)
                    /\ Persisted[j].recognition_status = e.recognition_status
                    /\ Persisted[j].person_id = e.person_id
                    /\ Persisted[j].confidence_score = e.confidence_score
                    /\ e.recognition_status \in {"recognized", "unknown"}
                    /\ e.recognition_status = "recognized" => e.person_id # NoneId
                    /\ e.recognition_status = "unknown"
                         => e.person_id = NoneId
                            /\ e.confidence_score = DefaultConfidence]_vars

(* The timestamps of the list go down from its head *)
NewestFirst(recognition_logs) ==
  \A k \in 1..(Len(recognition_logs) - 1) :
    recognition_logs[k].timestamp > recognition_logs[k + 1].timestamp

(* C30: after every run of the recognition page the session list holds at  *)
(* most 50 entries, newest first: the entries of the run stand at its head *)
(* in the reverse of their order, the entries the list had before follow   *)
(* from their head on, and what does not fit in 50 entries is cut from the *)
(* tail of the old list, its oldest entries.                               *)
C30_SessionLogsCapped ==
  [][\A s \in Sessions :
       PageRan(s) =>
         LET before == IF pages'[s].event = "clear_logs" THEN <<>>
                       ELSE pages[s].recognition_logs
             after == pages'[s].recognition_logs
             added == pages'[s].now - pages[s].now
             total == added + Len(before)
         IN /\ Len(after) <= SessionLogCap
            /\ NewestFirst(after)
            /\ Len(after) = IF total > SessionLogCap THEN SessionLogCap ELSE total
            /\ \A k \in 1..Len(after) :
                 IF k <= added
                 THEN after[k].timestamp = pages'[s].now + 1 - k
                 ELSE after[k] = before[k - added]]_vars

(* A full list has taken the outcomes of a frame: its oldest entries are   *)
(* gone                                                                    *)
C30_Witness ==
  \E s \in Sessions :
    /\ Len(pages[s].recognition_logs) = SessionLogCap
    /\ pages[s].now > SessionLogCap
    /\ pages[s].recognition_logs[SessionLogCap].timestamp > 1
    /\ pages[s].recognition_logs[1].timestamp = pages[s].now

(* Who is inside a "with self.lock:" block *)
InsideLock ==
  (IF camera.caller = "locked" THEN {HeldByCaller} ELSE {})
    \cup { HeldByThread(t) : t \in { u \in 1..Len(camera.threads) :
                                       camera.threads[u].pc = "locked" } }

(* The arrays the acquisition threads hold or have put in the slot *)
ThreadArrays ==
  (IF camera.frame = <<>> THEN {} ELSE {camera.frame[1]})
    \cup { camera.threads[t].frame[1] : t \in { u \in 1..Len(camera.threads) :
                                                  camera.threads[u].frame # <<>> } }

(* C28: the slot self.frame is read and written inside "with self.lock:"   *)
(* only, by one thread at a time, which holds the lock; get_frame returns  *)
(* None, or an array of its own that holds one frame the device delivered, *)
(* and a step of an acquisition thread leaves what was returned as it is.  *)
C28_SlotUnderLock ==
  [][/\ camera'.frame # camera.frame
         => \E t \in 1..Len(camera.threads) :
              /\ camera.lock = HeldByThread(t)
              /\ InsideLock = {HeldByThread(t)}
              /\ camera'.frame = camera.threads[t].frame
     /\ camera'.has_returned /\ camera'.returned # camera.returned
         => /\ camera.lock = HeldByCaller
            /\ InsideLock = {HeldByCaller}
     /\ camera.caller = "locked" /\ camera'.caller = "idle"
         => /\ camera.lock = HeldByCaller
            /\ InsideLock = {HeldByCaller}
            /\ camera.frame = <<>> => camera'.returned = <<>>
            /\ camera.frame # <<>>
                 => /\ Len(camera'.returned) = 1
                    /\ camera'.returned[1].data = camera.frame[1].data
                    /\ camera'.returned[1].data \in 1..camera.reads
     /\ camera'.returned # <<>> => camera'.returned[1] \notin ThreadArrays'
     /\ camera.caller # "locked" => camera'.returned = camera.returned]_vars

(* get_frame has returned the copy of a frame and the acquisition thread   *)
(* has put a later frame in the slot since                                 *)
C28_Witness ==
  /\ camera.has_returned
  /\ camera.returned # <<>>
  /\ camera.frame # <<>>
  /\ camera.frame[1].data > camera.returned[1].data

(* The acquisition threads that have not left _read_frames *)
AliveThreads ==
  { t \in 1..Len(camera.threads) : camera.threads[t].pc # "done" }

(* C29: after any calls of start and stop at most one acquisition thread   *)
(* is alive; once stop has returned no thread started before is alive, and *)
(* no thread calls read() on a VideoCapture that was released.             *)
C29_OneAcquisitionThread ==
  /\ Cardinality(AliveThreads) <= 1
  /\ camera.caller = "idle" /\ ~camera.is_running => AliveThreads = {}
  /\ ~camera.read_released

====
